---- MODULE Spec2Model ----
(***************************************************************************)
(* Model of src/bookmarks_chromium.py: the bookmark-tree traversal, the    *)
(* folder-selector resolver and the list-dirs sub-command.                 *)
(*                                                                         *)
(* Python strings are sequences of one-character strings, so that lower(), *)
(* the substring test, join and the f-strings are computed and not         *)
(* assumed.  An Optional[str] is <<>> for None and <<s>> for the string s. *)
(* A JSON object (dict) is a record; a JSON array is a sequence.           *)
(***************************************************************************)
EXTENDS Integers, Sequences, FiniteSets

(* ------------------------------------------------------------------ *)
(* Bounds of the model                                                 *)
(* ------------------------------------------------------------------ *)
\* Largest number of nodes (folders and bookmarks) of a generated document.
MaxNodes == 4

(* ------------------------------------------------------------------ *)
(* String literals of the source                                       *)
(* ------------------------------------------------------------------ *)
S_folder == <<"f", "o", "l", "d", "e", "r">>
S_url == <<"u", "r", "l">>
S_path == <<"p", "a", "t", "h">>
S_csv == <<"c", "s", "v">>
S_jsonl == <<"j", "s", "o", "n", "l">>
S_id == <<"i", "d">>
S_parent_id == <<"p", "a", "r", "e", "n", "t", "_", "i", "d">>
S_name == <<"n", "a", "m", "e">>
S_type == <<"t", "y", "p", "e">>
S_null == <<"n", "u", "l", "l">>
S_ERROR == <<"E", "R", "R", "O", "R">>
S_NoMatch == <<"N", "o", " ", "b", "o", "o", "k", "m", "a", "r", "k", " ", "f", "o", "l", "d", "e", "r", " ", "m", "a", "t", "c", "h", "e", "s", " ", "s", "e", "l", "e", "c", "t", "o", "r", " ", "'">>
S_Internal == <<"I", "n", "t", "e", "r", "n", "a", "l", " ", "e", "r", "r", "o", "r", ":", " ", "m", "u", "l", "t", "i", "p", "l", "e", " ", "f", "o", "l", "d", "e", "r", "s", " ", "w", "i", "t", "h", " ", "i", "d", " ">>
\* The two adjacent literals of lines 166-167, concatenated.
S_Ambiguous == <<"E", "R", "R", "O", "R", ":", " ", "a", "m", "b", "i", "g", "u", "o", "u", "s", " ", "b", "o", "o", "k", "m", "a", "r", "k", " ", "f", "o", "l", "d", "e", "r", " ", "s", "e", "l", "e", "c", "t", "o", "r", ",", " ", "e", "x", "p", "e", "c", "t", "e", "d", " ", "o", "n", "e", " ", "f", "o", "l", "d", "e", "r", " ", "t", "o", " ", "m", "a", "t", "c", "h", " ", "w", "h", "i", "l", "e", " ", "a", "l", "l", " ", "t", "h", "e", "s", "e", " ", "f", "o", "l", "d", "e", "r", "s", " ", "m", "a", "t", "c", "h", ":", " ">>
S_IdOpen == <<" ", "(", "i", "d", ":">>

(* ------------------------------------------------------------------ *)
(* Python string and list primitives                                   *)
(* ------------------------------------------------------------------ *)
None == <<>>
Some(v) == <<v>>

UpperChars == <<"A", "B", "C", "D", "E", "F", "G", "H", "I", "J", "K", "L", "M", "N", "O", "P", "Q", "R", "S", "T", "U", "V", "W", "X", "Y", "Z">>
LowerChars == <<"a", "b", "c", "d", "e", "f", "g", "h", "i", "j", "k", "l", "m", "n", "o", "p", "q", "r", "s", "t", "u", "v", "w", "x", "y", "z">>

\* str.lower() on one character
LowerChar(c) ==
    IF \E i \in 1..Len(UpperChars) : UpperChars[i] = c
    THEN LowerChars[CHOOSE i \in 1..Len(UpperChars) : UpperChars[i] = c]
    ELSE c

\* str.lower()
Lower(s) == [i \in 1..Len(s) |-> LowerChar(s[i])]

\* the Python test  `sub in s`  on strings
Contains(s, sub) ==
    \E i \in 0..(Len(s) - Len(sub)) : SubSeq(s, i + 1, i + Len(sub)) = sub

\* sep.join(parts)
RECURSIVE Join(_, _)
Join(sep, parts) ==
    IF Len(parts) = 0 THEN <<>>
    ELSE IF Len(parts) = 1 THEN parts[1]
    ELSE parts[1] \o sep \o Join(sep, Tail(parts))

\* concatenation of a list of lists (list.extend in a loop, yield from)
RECURSIVE Flatten(_)
Flatten(ss) == IF Len(ss) = 0 THEN <<>> ELSE Head(ss) \o Flatten(Tail(ss))

\* dict.get(key, default) for the two keys the traversal reads with get
GetType(node) == IF "type" \in DOMAIN node THEN Some(node.type) ELSE None
GetChildren(node) == IF "children" \in DOMAIN node THEN node.children ELSE <<>>

(* ------------------------------------------------------------------ *)
(* Logging helpers                                                     *)
(* ------------------------------------------------------------------ *)
\* the module-level default; main() overwrites it with args.verbose, and
\* the model runs the tool without -v
VERBOSITY == 0

\* _log: the line written to stderr (without the newline), or nothing
Log(level, msg, v_required) ==
    IF VERBOSITY >= v_required THEN <<level \o <<":", " ">> \o msg>> ELSE <<>>

log_error(msg) == Log(S_ERROR, msg, 0)

(* ------------------------------------------------------------------ *)
(* Traversal utils                                                     *)
(* ------------------------------------------------------------------ *)
\* Variant of _iter_folders that yields a folder after its children
\* (post-order).
RECURSIVE _iter_folders_postorder(_, _, _)
_iter_folders_postorder(node, parent_id, path_parts) ==
    IF GetType(node) = Some(S_folder)
    THEN Flatten([k \in 1..Len(GetChildren(node)) |->
                _iter_folders_postorder(GetChildren(node)[k], Some(node.id),
                                        Append(path_parts, node.name))])
         \o <<[folder |-> node, parent_id |-> parent_id,
               path_parts |-> Append(path_parts, node.name)]>>
    ELSE <<>>

\* Variant of _iter_folders that hands the caller's path_parts down to the
\* children without the folder's own name.
RECURSIVE _iter_folders_shortpath(_, _, _)
_iter_folders_shortpath(node, parent_id, path_parts) ==
    IF GetType(node) = Some(S_folder)
    THEN <<[folder |-> node, parent_id |-> parent_id,
            path_parts |-> Append(path_parts, node.name)]>>
         \o Flatten([k \in 1..Len(GetChildren(node)) |->
                _iter_folders_shortpath(GetChildren(node)[k], Some(node.id),
                                        path_parts)])
    ELSE <<>>

\* Variant of _iter_folders that hands its own parent_id down to the
\* children instead of the folder's id.
RECURSIVE _iter_folders_grandparent(_, _, _)
_iter_folders_grandparent(node, parent_id, path_parts) ==
    IF GetType(node) = Some(S_folder)
    THEN <<[folder |-> node, parent_id |-> parent_id,
            path_parts |-> Append(path_parts, node.name)]>>
         \o Flatten([k \in 1..Len(GetChildren(node)) |->
                _iter_folders_grandparent(GetChildren(node)[k], parent_id,
                                          Append(path_parts, node.name))])
    ELSE <<>>

\* Variant of _iter_folders that takes for a folder only a node made of the
\* keys type, id, name and children.
RECURSIVE _iter_folders_strict(_, _, _)
_iter_folders_strict(node, parent_id, path_parts) ==
    IF /\ GetType(node) = Some(S_folder)
       /\ DOMAIN node \subseteq {"type", "id", "name", "children"}
    THEN <<[folder |-> node, parent_id |-> parent_id,
            path_parts |-> Append(path_parts, node.name)]>>
         \o Flatten([k \in 1..Len(GetChildren(node)) |->
                _iter_folders_strict(GetChildren(node)[k], Some(node.id),
                                     Append(path_parts, node.name))])
    ELSE <<>>

\* _iter_folders: the list of records (folder, parent_id, path_parts) the
\* generator yields, in the order it yields them
RECURSIVE _iter_folders(_, _, _)
_iter_folders(node, parent_id, path_parts) ==
    IF GetType(node) = Some(S_folder)
    THEN <<[folder |-> node, parent_id |-> parent_id,
            path_parts |-> Append(path_parts, node.name)]>>
         \o Flatten([k \in 1..Len(GetChildren(node)) |->
                _iter_folders(GetChildren(node)[k], Some(node.id),
                              Append(path_parts, node.name))])
    ELSE <<>>

\* whether the walk of node ends in a KeyError: a folder without "name"
\* (line 138), or a folder with children and without "id" (line 140)
RECURSIVE _iter_folders_raises(_)
_iter_folders_raises(node) ==
    /\ GetType(node) = Some(S_folder)
    /\ \/ "name" \notin DOMAIN node
       \/ /\ GetChildren(node) # <<>>
          /\ \/ "id" \notin DOMAIN node
             \/ \E k \in 1..Len(GetChildren(node)) :
                    _iter_folders_raises(GetChildren(node)[k])

\* Variant of _iter_children that hands out the children last to first.
_iter_children_reversed(node) ==
    [k \in 1..Len(GetChildren(node)) |->
        GetChildren(node)[Len(GetChildren(node)) + 1 - k]]

\* _iter_children
_iter_children(node) == GetChildren(node)

\* whether _match_selector ends in a KeyError: line 150 reads f["id"] of
\* every folder of the list
_match_selector_raises(folders) ==
    \E k \in 1..Len(folders) : "id" \notin DOMAIN folders[k].folder

\* what an uncaught exception leaves on stderr, reduced to the exception's
\* name
S_KeyError == <<"K", "e", "y", "E", "r", "r", "o", "r">>

\* Variant of _match_selector that consults the id tier only when no name
\* matches.
_match_selector_namefirst(folders, selector) ==
    LET IdIs(r) == r.folder.id = selector
        by_id == SelectSeq(folders, IdIs)
        sel_low == Lower(selector)
        NameHas(r) == Contains(Lower(r.folder.name), sel_low)
        matches == SelectSeq(folders, NameHas)
        \* `f in matches` compares the dicts by value
        InMatches(r) == \E k \in 1..Len(matches) : matches[k].folder = r.folder
        listed == SelectSeq(folders, InMatches)
        names == Join(<<",", " ">>,
                      [k \in 1..Len(listed) |->
                          Join(<<"/">>, listed[k].path_parts) \o S_IdOpen
                          \o listed[k].folder.id \o <<")">>])
    IN  IF Len(by_id) > 0 /\ Len(matches) = 0
        THEN IF Len(by_id) > 1
             THEN [returned |-> None,
                   log |-> log_error(S_Internal \o selector)]
             ELSE [returned |-> Some(by_id[1].folder), log |-> <<>>]
        ELSE IF Len(matches) = 0
             THEN [returned |-> None,
                   log |-> log_error(S_NoMatch \o selector \o <<"'">>)]
             ELSE IF Len(matches) > 1
                  THEN [returned |-> None,
                        log |-> log_error(S_Ambiguous \o names)]
                  ELSE [returned |-> Some(matches[1].folder), log |-> <<>>]

\* Variant of _match_selector that looks for the token in the joined path.
_match_selector_bypath(folders, selector) ==
    LET IdIs(r) == r.folder.id = selector
        by_id == SelectSeq(folders, IdIs)
        sel_low == Lower(selector)
        NameHas(r) == Contains(Lower(Join(<<"/">>, r.path_parts)), sel_low)
        matches == SelectSeq(folders, NameHas)
        \* `f in matches` compares the dicts by value
        InMatches(r) == \E k \in 1..Len(matches) : matches[k].folder = r.folder
        listed == SelectSeq(folders, InMatches)
        names == Join(<<",", " ">>,
                      [k \in 1..Len(listed) |->
                          Join(<<"/">>, listed[k].path_parts) \o S_IdOpen
                          \o listed[k].folder.id \o <<")">>])
    IN  IF Len(by_id) > 0
        THEN IF Len(by_id) > 1
             THEN [returned |-> None,
                   log |-> log_error(S_Internal \o selector)]
             ELSE [returned |-> Some(by_id[1].folder), log |-> <<>>]
        ELSE IF Len(matches) = 0
             THEN [returned |-> None,
                   log |-> log_error(S_NoMatch \o selector \o <<"'">>)]
             ELSE IF Len(matches) > 1
                  THEN [returned |-> None,
                        log |-> log_error(S_Ambiguous \o names)]
                  ELSE [returned |-> Some(matches[1].folder), log |-> <<>>]

\* Variant of _match_selector that reports the lower-cased token.
_match_selector_lowtoken(folders, selector) ==
    LET IdIs(r) == r.folder.id = selector
        by_id == SelectSeq(folders, IdIs)
        sel_low == Lower(selector)
        NameHas(r) == Contains(Lower(r.folder.name), sel_low)
        matches == SelectSeq(folders, NameHas)
        \* `f in matches` compares the dicts by value
        InMatches(r) == \E k \in 1..Len(matches) : matches[k].folder = r.folder
        listed == SelectSeq(folders, InMatches)
        names == Join(<<",", " ">>,
                      [k \in 1..Len(listed) |->
                          Join(<<"/">>, listed[k].path_parts) \o S_IdOpen
                          \o listed[k].folder.id \o <<")">>])
    IN  IF Len(by_id) > 0
        THEN IF Len(by_id) > 1
             THEN [returned |-> None,
                   log |-> log_error(S_Internal \o selector)]
             ELSE [returned |-> Some(by_id[1].folder), log |-> <<>>]
        ELSE IF Len(matches) = 0
             THEN [returned |-> None,
                   log |-> log_error(S_NoMatch \o sel_low \o <<"'">>)]
             ELSE IF Len(matches) > 1
                  THEN [returned |-> None,
                        log |-> log_error(S_Ambiguous \o names)]
                  ELSE [returned |-> Some(matches[1].folder), log |-> <<>>]

\* Variant of _match_selector that lists every folder in the ambiguity
\* message.
_match_selector_listall(folders, selector) ==
    LET IdIs(r) == r.folder.id = selector
        by_id == SelectSeq(folders, IdIs)
        sel_low == Lower(selector)
        NameHas(r) == Contains(Lower(r.folder.name), sel_low)
        matches == SelectSeq(folders, NameHas)
        \* `f in matches` compares the dicts by value
        InMatches(r) == \E k \in 1..Len(matches) : matches[k].folder = r.folder
        listed == folders
        names == Join(<<",", " ">>,
                      [k \in 1..Len(listed) |->
                          Join(<<"/">>, listed[k].path_parts) \o S_IdOpen
                          \o listed[k].folder.id \o <<")">>])
    IN  IF Len(by_id) > 0
        THEN IF Len(by_id) > 1
             THEN [returned |-> None,
                   log |-> log_error(S_Internal \o selector)]
             ELSE [returned |-> Some(by_id[1].folder), log |-> <<>>]
        ELSE IF Len(matches) = 0
             THEN [returned |-> None,
                   log |-> log_error(S_NoMatch \o selector \o <<"'">>)]
             ELSE IF Len(matches) > 1
                  THEN [returned |-> None,
                        log |-> log_error(S_Ambiguous \o names)]
                  ELSE [returned |-> Some(matches[1].folder), log |-> <<>>]

\* Variant of _match_selector that, among several name matches, returns the
\* first folder whose whole name is the token.
_match_selector_exactfirst(folders, selector) ==
    LET IdIs(r) == r.folder.id = selector
        by_id == SelectSeq(folders, IdIs)
        sel_low == Lower(selector)
        NameHas(r) == Contains(Lower(r.folder.name), sel_low)
        matches == SelectSeq(folders, NameHas)
        NameIs(r) == Lower(r.folder.name) = sel_low
        exact == SelectSeq(folders, NameIs)
        \* `f in matches` compares the dicts by value
        InMatches(r) == \E k \in 1..Len(matches) : matches[k].folder = r.folder
        listed == SelectSeq(folders, InMatches)
        names == Join(<<",", " ">>,
                      [k \in 1..Len(listed) |->
                          Join(<<"/">>, listed[k].path_parts) \o S_IdOpen
                          \o listed[k].folder.id \o <<")">>])
    IN  IF Len(by_id) > 0
        THEN IF Len(by_id) > 1
             THEN [returned |-> None,
                   log |-> log_error(S_Internal \o selector)]
             ELSE [returned |-> Some(by_id[1].folder), log |-> <<>>]
        ELSE IF Len(matches) = 0
             THEN [returned |-> None,
                   log |-> log_error(S_NoMatch \o selector \o <<"'">>)]
             ELSE IF Len(exact) > 0
                  THEN [returned |-> Some(exact[1].folder), log |-> <<>>]
             ELSE IF Len(matches) > 1
                  THEN [returned |-> None,
                        log |-> log_error(S_Ambiguous \o names)]
                  ELSE [returned |-> Some(matches[1].folder), log |-> <<>>]

\* Variant of _match_selector that returns the first folder with the id,
\* however many there are.
_match_selector_firstid(folders, selector) ==
    LET IdIs(r) == r.folder.id = selector
        by_id == SelectSeq(folders, IdIs)
        sel_low == Lower(selector)
        NameHas(r) == Contains(Lower(r.folder.name), sel_low)
        matches == SelectSeq(folders, NameHas)
        \* `f in matches` compares the dicts by value
        InMatches(r) == \E k \in 1..Len(matches) : matches[k].folder = r.folder
        listed == SelectSeq(folders, InMatches)
        names == Join(<<",", " ">>,
                      [k \in 1..Len(listed) |->
                          Join(<<"/">>, listed[k].path_parts) \o S_IdOpen
                          \o listed[k].folder.id \o <<")">>])
    IN  IF Len(by_id) > 0
        THEN [returned |-> Some(by_id[1].folder), log |-> <<>>]
        ELSE IF Len(matches) = 0
             THEN [returned |-> None,
                   log |-> log_error(S_NoMatch \o selector \o <<"'">>)]
             ELSE IF Len(matches) > 1
                  THEN [returned |-> None,
                        log |-> log_error(S_Ambiguous \o names)]
                  ELSE [returned |-> Some(matches[1].folder), log |-> <<>>]

\* Variant of _match_selector whose id tier also takes the folder that holds
\* a bookmark with that id.
_match_selector_urlids(folders, selector) ==
    LET IdIs(r) ==
            \/ r.folder.id = selector
            \/ \E k \in 1..Len(GetChildren(r.folder)) :
                  /\ GetType(GetChildren(r.folder)[k]) = Some(S_url)
                  /\ GetChildren(r.folder)[k].id = selector
        by_id == SelectSeq(folders, IdIs)
        sel_low == Lower(selector)
        NameHas(r) == Contains(Lower(r.folder.name), sel_low)
        matches == SelectSeq(folders, NameHas)
        InMatches(r) == \E k \in 1..Len(matches) : matches[k].folder = r.folder
        listed == SelectSeq(folders, InMatches)
        names == Join(<<",", " ">>,
                      [k \in 1..Len(listed) |->
                          Join(<<"/">>, listed[k].path_parts) \o S_IdOpen
                          \o listed[k].folder.id \o <<")">>])
    IN  IF Len(by_id) > 0
        THEN IF Len(by_id) > 1
             THEN [returned |-> None,
                   log |-> log_error(S_Internal \o selector)]
             ELSE [returned |-> Some(by_id[1].folder), log |-> <<>>]
        ELSE IF Len(matches) = 0
             THEN [returned |-> None,
                   log |-> log_error(S_NoMatch \o selector \o <<"'">>)]
             ELSE IF Len(matches) > 1
                  THEN [returned |-> None,
                        log |-> log_error(S_Ambiguous \o names)]
                  ELSE [returned |-> Some(matches[1].folder), log |-> <<>>]

\* _match_selector: what the call does.  returned is Some(node) when the
\* function returns, None when it ends the process with sys.exit(1); log
\* holds the lines it wrote to stderr.
_match_selector(folders, selector) ==
    LET IdIs(r) == r.folder.id = selector
        by_id == SelectSeq(folders, IdIs)
        sel_low == Lower(selector)
        NameHas(r) == Contains(Lower(r.folder.name), sel_low)
        matches == SelectSeq(folders, NameHas)
        \* `f in matches` compares the dicts by value
        InMatches(r) == \E k \in 1..Len(matches) : matches[k].folder = r.folder
        listed == SelectSeq(folders, InMatches)
        names == Join(<<",", " ">>,
                      [k \in 1..Len(listed) |->
                          Join(<<"/">>, listed[k].path_parts) \o S_IdOpen
                          \o listed[k].folder.id \o <<")">>])
    IN  IF Len(by_id) > 0
        THEN IF Len(by_id) > 1
             THEN [returned |-> None,
                   log |-> log_error(S_Internal \o selector)]
             ELSE [returned |-> Some(by_id[1].folder), log |-> <<>>]
        ELSE IF Len(matches) = 0
             THEN [returned |-> None,
                   log |-> log_error(S_NoMatch \o selector \o <<"'">>)]
             ELSE IF Len(matches) > 1
                  THEN [returned |-> None,
                        log |-> log_error(S_Ambiguous \o names)]
                  ELSE [returned |-> Some(matches[1].folder), log |-> <<>>]

(* ------------------------------------------------------------------ *)
(* Format helpers                                                      *)
(* ------------------------------------------------------------------ *)
\* _folder_path
_folder_path(path_parts) == <<"/">> \o Join(<<"/">>, path_parts)

\* Variant of JsonEscapeChar that escapes nothing.
JsonEscapeChar_raw(c) == <<c>>

\* json.dumps of a str (ensure_ascii=False): quotes, with the double quote
\* and the backslash escaped
JsonEscapeChar(c) ==
    IF c = "\"" THEN <<"\\", "\"">>
    ELSE IF c = "\\" THEN <<"\\", "\\">>
    ELSE <<c>>
JsonStr(s) == <<"\"">> \o Flatten([i \in 1..Len(s) |-> JsonEscapeChar(s[i])]) \o <<"\"">>

\* json.dumps of an Optional[str]
JsonOptStr(o) == IF o = None THEN S_null ELSE JsonStr(o[1])

\* json.dumps of a dict given as the list of its (key, dumped value) items
JsonObject(items) ==
    <<"{">> \o Join(<<",", " ">>,
                    [k \in 1..Len(items) |->
                        JsonStr(items[k][1]) \o <<":", " ">> \o items[k][2]])
    \o <<"}">>

S_children == <<"c", "h", "i", "l", "d", "r", "e", "n">>
S_guid == <<"g", "u", "i", "d">>
S_date_added == <<"d", "a", "t", "e", "_", "a", "d", "d", "e", "d">>

\* the keys a node may carry, in the order the browser writes them (sorted),
\* each with its text
NodeKeys ==
    <<<<"children", S_children>>, <<"date_added", S_date_added>>,
      <<"guid", S_guid>>, <<"id", S_id>>, <<"name", S_name>>,
      <<"type", S_type>>, <<"url", S_url>>>>

\* json.dumps(node, ensure_ascii=False): the keys the node has, a folder's
\* children dumped in place
RECURSIVE JsonNode(_)
JsonNode(node) ==
    LET dumped == [k \in 1..Len(GetChildren(node)) |->
                       JsonNode(GetChildren(node)[k])]
        Value(key) == IF key = "children"
                      THEN <<"[">> \o Join(<<",", " ">>, dumped) \o <<"]">>
                      ELSE JsonStr(node[key])
    IN  JsonObject(Flatten([k \in 1..Len(NodeKeys) |->
            IF NodeKeys[k][1] \in DOMAIN node
            THEN <<<<NodeKeys[k][2], Value(NodeKeys[k][1])>>>>
            ELSE <<>>]))

\* _print_folder_line: the line it prints
_print_folder_line(folder, parent_id, path_parts, a) ==
    LET path_str == _folder_path(path_parts)
    IN  IF a.format = S_path
        THEN path_str \o (IF a.show_ids
                          THEN S_IdOpen \o folder.id \o <<")">> ELSE <<>>)
        ELSE IF a.format = S_csv
        THEN folder.id \o <<",">>
             \o (IF parent_id = None THEN <<>> ELSE parent_id[1])
             \o <<",", "\"">> \o folder.name \o <<"\"">>
        ELSE JsonObject(<<<<S_id, JsonStr(folder.id)>>,
                          <<S_parent_id, JsonOptStr(parent_id)>>,
                          <<S_name, JsonStr(folder.name)>>,
                          <<S_path, JsonStr(path_str)>>>>)

(* ------------------------------------------------------------------ *)
(* Input documents                                                     *)
(* ------------------------------------------------------------------ *)
S_bookmark_bar == <<"b", "o", "o", "k", "m", "a", "r", "k", "_", "b", "a", "r">>
S_other == <<"o", "t", "h", "e", "r">>
S_synced == <<"s", "y", "n", "c", "e", "d">>
S_sync_transaction_version == <<"s", "y", "n", "c", "_", "t", "r", "a", "n", "s", "a", "c", "t", "i", "o", "n", "_", "v", "e", "r", "s", "i", "o", "n">>
S_Work == <<"W", "o", "r", "k">>

\* the keys of the root folders, in the order the browser writes them
RootKeys == <<S_bookmark_bar, S_other, S_synced>>

\* names given to the folders of the generated documents
Names == {<<"a", "B">>, <<"b", "1">>}

\* names given to the bookmarks of the generated documents
UrlNames == {<<"b", "1">>}

\* selector tokens tried (the empty one stands for no selector given)
Tokens == {<<"A">>, <<"B">>, <<"1">>, <<"3">>}
Selectors == {<<>>} \cup Tokens

Digits == <<"0", "1", "2", "3", "4", "5", "6", "7", "8", "9">>
\* the decimal id string of a small number
IdStr(n) == <<Digits[n + 1]>>

\* the two id numberings tried for a document of n nodes: by position in
\* the file, ascending or descending
IdMaps(n) == {[i \in 1..n |-> IdStr(i)], [i \in 1..n |-> IdStr(n + 1 - i)]}

\* Forests(n, first, ids): the lists of sibling nodes holding n nodes in all,
\* numbered first, first+1, ... in file order; Trees likewise for one node
RECURSIVE Forests(_, _, _), Trees(_, _, _)
Forests(n, first, ids) ==
    IF n = 0 THEN {<<>>}
    ELSE UNION {{<<t>> \o f : t \in Trees(k, first, ids),
                              f \in Forests(n - k, first + k, ids)}
                : k \in 1..n}
Trees(k, first, ids) ==
    {[type |-> S_folder, id |-> ids[first], name |-> nm, children |-> ch]
        : nm \in Names, ch \in Forests(k - 1, first + 1, ids)}
    \cup (IF k = 1
          THEN {[type |-> S_url, id |-> ids[first], name |-> nm,
                 url |-> <<"u">> \o ids[first]] : nm \in UrlNames}
          ELSE {})

\* the "roots" object: an ordered mapping; next to the root folders it
\* holds one value that is not an object
RootsOf(f) ==
    <<[key |-> RootKeys[1], isdict |-> TRUE, value |-> f[1]],
      [key |-> S_sync_transaction_version, isdict |-> FALSE, value |-> <<"1">>]>>
    \o [k \in 1..(Len(f) - 1) |->
            [key |-> RootKeys[k + 1], isdict |-> TRUE, value |-> f[k + 1]]]

\* the documents of section 3: every root is a folder, ids are unique
ValidDocuments ==
    UNION {{[roots |-> RootsOf(f)]
              : f \in {g \in Forests(n, 1, ids) :
                          /\ Len(g) <= Len(RootKeys)
                          /\ \A k \in 1..Len(g) : g[k].type = S_folder}}
           : <<n, ids>> \in {<<m, im>> \in (1..MaxNodes) \X UNION {IdMaps(j) : j \in 1..MaxNodes} : im \in IdMaps(m)}}

(* ------------------------------------------------------------------ *)
(* State                                                               *)
(* ------------------------------------------------------------------ *)
VARIABLES
    data,         \* the parsed Bookmarks document (_load_bookmarks)
    args,         \* the argparse namespace of the list-dirs sub-command
    pc,           \* position of the run inside cmd_list_dirs
    folders_iter, \* the local list of cmd_list_dirs
    stdout,       \* lines printed so far
    stderr,       \* lines logged so far
    exit_code,    \* None while running, Some(status) once the process ended
    all_folders,  \* the local list of cmd_ls
    folder_node,  \* the folder cmd_ls resolved, None before
    hosts_file,   \* the lines of the hosts file on disk
    hosts_bak,    \* the lines of its backup copy, None while there is none
    hosts_args,   \* the arguments of the last run of the hosts tool
    hosts_exit,   \* the exit status of the last run of the hosts tool
    lines_data,   \* the local line list of the last run of the hosts tool
    hosts_runs,   \* number of runs of the hosts tool so far
    remote_profiles, \* the profile files of the remote account, None if missing
    remote_echo_e,   \* whether echo of the remote shell takes the option -e
    remote_copied,   \* the target scp wrote last, None before
    envsync_pc,      \* position of the run inside main of envsync
    envsync_args,    \* the arguments of the last run of envsync
    remote_file,     \* the local remote_file of main of envsync
    profile_file,    \* the local profile_file of main of envsync
    envsync_exit,    \* the exit status of the last run of envsync
    envsync_runs,    \* number of runs of envsync so far
    focused,         \* the window that has the focus of the X display
    paste_pc,        \* position of the run inside paste_lines_to_window
    paste_args,      \* the arguments of the run of paste_lines_to_window
    input_file,      \* the lines of its input not read yet
    initial_focus,   \* the local initial_focus of paste_lines
    target_focus,    \* the local target_focus of paste_lines
    commands,        \* the local list commands of paste_lines
    lines_to_process, \* the local list lines_to_process of paste_lines
    line_count,      \* the local counter line_count of paste_lines
    command_i,       \* the index i of the loop over commands, from 1
    current_focus,   \* the local current_focus of assert_window_focused
    clipboard_log,   \* the contents xclip put on the clipboard, in order
    keys_sent        \* the key commands xdotool was run with, in order

ls_vars == <<all_folders, folder_node>>

hosts_vars == <<hosts_file, hosts_bak, hosts_args, hosts_exit, lines_data,
                hosts_runs>>

envsync_vars == <<remote_profiles, remote_echo_e, remote_copied, envsync_pc,
                  envsync_args, remote_file, profile_file, envsync_exit,
                  envsync_runs>>

paste_vars == <<focused, paste_pc, paste_args, input_file, initial_focus,
                target_focus, commands, lines_to_process, line_count,
                command_i, current_focus, clipboard_log, keys_sent>>

tools_vars == <<envsync_vars, paste_vars>>

vars == <<data, args, pc, folders_iter, stdout, stderr, exit_code,
          all_folders, folder_node,
          hosts_file, hosts_bak, hosts_args, hosts_exit, lines_data,
          hosts_runs,
          remote_profiles, remote_echo_e, remote_copied, envsync_pc,
          envsync_args, remote_file, profile_file, envsync_exit,
          envsync_runs,
          focused, paste_pc, paste_args, input_file, initial_focus,
          target_focus, commands, lines_to_process, line_count,
          command_i, current_focus, clipboard_log, keys_sent>>

\* the defaults of _build_parser
DefaultArgs ==
    [selector |-> <<>>, format |-> S_path, show_ids |-> FALSE,
     with_bookmarks |-> FALSE]

InitRun ==
    /\ args = DefaultArgs
    /\ pc = "start"
    /\ folders_iter = <<>>
    /\ stdout = <<>>
    /\ stderr = <<>>
    /\ exit_code = None
    /\ all_folders = <<>>
    /\ folder_node = None

\* no run of the hosts tool: an empty file, no backup
HostsIdle ==
    /\ hosts_file = <<>>
    /\ hosts_bak = None
    /\ hosts_args = None
    /\ hosts_exit = None
    /\ lines_data = <<>>
    /\ hosts_runs = 0

\* no run of envsync: no remote profile, nothing copied
EnvsyncIdle ==
    /\ remote_profiles = <<>>
    /\ remote_echo_e = TRUE
    /\ remote_copied = None
    /\ envsync_pc = "idle"
    /\ envsync_args = None
    /\ remote_file = None
    /\ profile_file = None
    /\ envsync_exit = None
    /\ envsync_runs = 0

\* no run of paste_lines_to_window
PasteIdle ==
    /\ focused = None
    /\ paste_pc = "start"
    /\ paste_args = None
    /\ input_file = <<>>
    /\ initial_focus = None
    /\ target_focus = None
    /\ commands = <<>>
    /\ lines_to_process = <<>>
    /\ line_count = 0
    /\ command_i = 0
    /\ current_focus = None
    /\ clipboard_log = <<>>
    /\ keys_sent = <<>>

ToolsIdle == EnvsyncIdle /\ PasteIdle

Init == data \in ValidDocuments /\ InitRun /\ HostsIdle /\ ToolsIdle

(* ------------------------------------------------------------------ *)
(* cmd_list_dirs                                                       *)
(* ------------------------------------------------------------------ *)
\* lines 240-244: the folders of every root that is an object
AllFolders(d) ==
    Flatten([k \in 1..Len(d.roots) |->
                IF d.roots[k].isdict
                THEN _iter_folders(d.roots[k].value, None, <<d.roots[k].key>>)
                ELSE <<>>])

\* whether lines 239-244 end in a KeyError: no "roots", or a walk that does
AllFoldersRaises(d) ==
    \/ "roots" \notin DOMAIN d
    \/ \E k \in 1..Len(d.roots) :
          d.roots[k].isdict /\ _iter_folders_raises(d.roots[k].value)

Enumerate ==
    /\ pc = "start"
    /\ IF AllFoldersRaises(data)
       THEN /\ stderr' = Append(stderr, S_KeyError)
            /\ exit_code' = Some(1)
            /\ pc' = "raised"
            /\ UNCHANGED folders_iter
       ELSE /\ folders_iter' = AllFolders(data)
            /\ pc' = "enumerated"
            /\ UNCHANGED <<stderr, exit_code>>
    /\ UNCHANGED <<data, args, stdout, ls_vars, hosts_vars, tools_vars>>

IsFolder(node) == GetType(node) = Some(S_folder)

\* the folders of the subtree of node (node included), reached through
\* folders only
RECURSIVE SubFolders(_)
SubFolders(node) ==
    IF IsFolder(node)
    THEN {node} \cup UNION {SubFolders(GetChildren(node)[k])
                               : k \in 1..Len(GetChildren(node))}
    ELSE {}

\* Variant of Select that keeps the records of the selected subtree from the
\* full list instead of walking the subtree again.
Select_filtered ==
    /\ pc = "enumerated"
    /\ \E selector \in Selectors :
        /\ args' = [args EXCEPT !.selector = selector]
        /\ IF selector # <<>> /\ _match_selector_raises(folders_iter)
           THEN /\ stderr' = Append(stderr, S_KeyError)
                /\ exit_code' = Some(1)
                /\ pc' = "raised"
                /\ UNCHANGED folders_iter
           ELSE IF selector # <<>>
           THEN LET r == _match_selector(folders_iter, selector)
                IN  IF r.returned = None
                    THEN /\ stderr' = stderr \o r.log
                         /\ exit_code' = Some(1)
                         /\ pc' = "exited"
                         /\ UNCHANGED folders_iter
                    ELSE /\ folders_iter' = SelectSeq(folders_iter, LAMBDA x : x.folder \in SubFolders(r.returned[1]))
                         /\ pc' = "selected"
                         /\ UNCHANGED <<stderr, exit_code>>
           ELSE /\ pc' = "selected"
                /\ UNCHANGED <<folders_iter, stderr, exit_code>>
    /\ UNCHANGED <<data, stdout, ls_vars, hosts_vars, tools_vars>>

\* Variant of Select that, when the selector resolves to no folder, logs the
\* error and goes on to list every folder.
Select_fallback ==
    /\ pc = "enumerated"
    /\ \E selector \in Selectors :
        /\ args' = [args EXCEPT !.selector = selector]
        /\ IF selector # <<>> /\ _match_selector_raises(folders_iter)
           THEN /\ stderr' = Append(stderr, S_KeyError)
                /\ exit_code' = Some(1)
                /\ pc' = "raised"
                /\ UNCHANGED folders_iter
           ELSE IF selector # <<>>
           THEN LET r == _match_selector(folders_iter, selector)
                IN  IF r.returned = None
                    THEN /\ stderr' = stderr \o r.log
                         /\ pc' = "selected"
                         /\ UNCHANGED <<folders_iter, exit_code>>
                    ELSE /\ folders_iter' = _iter_folders(r.returned[1], None, <<>>)
                         /\ pc' = "selected"
                         /\ UNCHANGED <<stderr, exit_code>>
           ELSE /\ pc' = "selected"
                /\ UNCHANGED <<folders_iter, stderr, exit_code>>
    /\ UNCHANGED <<data, stdout, ls_vars, hosts_vars, tools_vars>>

\* Variant of Select that restarts the walk with the selector as the first
\* path segment.
Select_prefixed ==
    /\ pc = "enumerated"
    /\ \E selector \in Selectors :
        /\ args' = [args EXCEPT !.selector = selector]
        /\ IF selector # <<>> /\ _match_selector_raises(folders_iter)
           THEN /\ stderr' = Append(stderr, S_KeyError)
                /\ exit_code' = Some(1)
                /\ pc' = "raised"
                /\ UNCHANGED folders_iter
           ELSE IF selector # <<>>
           THEN LET r == _match_selector(folders_iter, selector)
                IN  IF r.returned = None
                    THEN /\ stderr' = stderr \o r.log
                         /\ exit_code' = Some(1)
                         /\ pc' = "exited"
                         /\ UNCHANGED folders_iter
                    ELSE /\ folders_iter' = _iter_folders(r.returned[1], None,
                                                         <<selector>>)
                         /\ pc' = "selected"
                         /\ UNCHANGED <<stderr, exit_code>>
           ELSE /\ pc' = "selected"
                /\ UNCHANGED <<folders_iter, stderr, exit_code>>
    /\ UNCHANGED <<data, stdout, ls_vars, hosts_vars, tools_vars>>

\* lines 246-249: limit to the selected subtree, or leave with status 1
Select ==
    /\ pc = "enumerated"
    /\ \E selector \in Selectors :
        /\ args' = [args EXCEPT !.selector = selector]
        /\ IF selector # <<>> /\ _match_selector_raises(folders_iter)
           THEN /\ stderr' = Append(stderr, S_KeyError)
                /\ exit_code' = Some(1)
                /\ pc' = "raised"
                /\ UNCHANGED folders_iter
           ELSE IF selector # <<>>
           THEN LET r == _match_selector(folders_iter, selector)
                IN  IF r.returned = None
                    THEN /\ stderr' = stderr \o r.log
                         /\ exit_code' = Some(1)
                         /\ pc' = "exited"
                         /\ UNCHANGED folders_iter
                    ELSE /\ folders_iter' = _iter_folders(r.returned[1], None, <<>>)
                         /\ pc' = "selected"
                         /\ UNCHANGED <<stderr, exit_code>>
           ELSE /\ pc' = "selected"
                /\ UNCHANGED <<folders_iter, stderr, exit_code>>
    /\ UNCHANGED <<data, stdout, ls_vars, hosts_vars, tools_vars>>

\* lines 256-263: the line printed for one bookmark child of folder
_bookmark_line(child, folder, path_parts, a) ==
    IF a.format = S_path
    THEN _folder_path(Append(path_parts, child.name))
    ELSE IF a.format = S_csv
    THEN child.id \o <<",">> \o folder.id \o <<",", "\"">>
         \o child.name \o <<"\"">>
    ELSE JsonNode(child)

\* lines 254-263: the lines printed for the bookmarks directly below folder
BookmarkLines(folder, path_parts, a) ==
    LET ch == _iter_children(folder)
    IN  Flatten([k \in 1..Len(ch) |->
                    IF ch[k].type = S_url
                    THEN <<_bookmark_line(ch[k], folder, path_parts, a)>>
                    ELSE <<>>])

\* Variant of ListDirsLines that prints the bookmark lines after all the
\* folder lines.
ListDirsLines_bookmarks_last(folders, a) ==
    [k \in 1..Len(folders) |->
        _print_folder_line(folders[k].folder, folders[k].parent_id,
                           folders[k].path_parts, a)]
    \o (IF a.with_bookmarks
        THEN Flatten([k \in 1..Len(folders) |->
                BookmarkLines(folders[k].folder, folders[k].path_parts, a)])
        ELSE <<>>)

\* the lines of a list without those equal to an earlier one
RECURSIVE Unique(_)
Unique(lines) ==
    IF lines = <<>> THEN <<>>
    ELSE LET front == Unique(SubSeq(lines, 1, Len(lines) - 1))
             last == lines[Len(lines)]
         IN  IF \E k \in 1..Len(front) : front[k] = last
             THEN front ELSE Append(front, last)

\* Variant of ListDirsLines that prints a line once only, however many
\* records render to it.
ListDirsLines_unique(folders, a) ==
    Unique(Flatten([k \in 1..Len(folders) |->
        <<_print_folder_line(folders[k].folder, folders[k].parent_id,
                             folders[k].path_parts, a)>>
        \o (IF a.with_bookmarks
            THEN BookmarkLines(folders[k].folder, folders[k].path_parts, a)
            ELSE <<>>)]))

\* lines 251-263: everything the output loop prints
ListDirsLines(folders, a) ==
    Flatten([k \in 1..Len(folders) |->
        <<_print_folder_line(folders[k].folder, folders[k].parent_id,
                             folders[k].path_parts, a)>>
        \o (IF a.with_bookmarks
            THEN BookmarkLines(folders[k].folder, folders[k].path_parts, a)
            ELSE <<>>)])

Formats == {S_path, S_csv, S_jsonl}

Raised == [raises |-> TRUE, lines |-> <<>>]

Printed(lines) == [raises |-> FALSE, lines |-> lines]

\* line 252 for one record raises a KeyError when the format reads an "id"
\* the folder lacks
FolderRaises(rec, a) ==
    "id" \notin DOMAIN rec.folder /\ (a.format # S_path \/ a.show_ids)

FolderStep(rec, a) ==
    IF FolderRaises(rec, a) THEN Raised
    ELSE Printed(<<_print_folder_line(rec.folder, rec.parent_id,
                                      rec.path_parts, a)>>)

\* lines 255-263 for one child raise a KeyError when a key that is read is
\* missing
BookmarkRaises(child, rec, a) ==
    \/ "type" \notin DOMAIN child
    \/ /\ child.type = S_url
       /\ \/ "name" \notin DOMAIN child
          \/ a.format = S_csv /\ "id" \notin DOMAIN child
          \/ a.format = S_csv /\ "id" \notin DOMAIN rec.folder

\* else they print the line of a bookmark and nothing for another node
BookmarkStep(child, rec, a) ==
    IF BookmarkRaises(child, rec, a) THEN Raised
    ELSE IF child.type # S_url THEN Printed(<<>>)
    ELSE Printed(<<_bookmark_line(child, rec.folder, rec.path_parts, a)>>)

\* whether a print call of lines 251-263 raises
ListDirsRaises(folders, a) ==
    \E k \in 1..Len(folders) :
        \/ FolderRaises(folders[k], a)
        \/ /\ a.with_bookmarks
           /\ \E i \in 1..Len(_iter_children(folders[k].folder)) :
                 BookmarkRaises(_iter_children(folders[k].folder)[i],
                                folders[k], a)

\* the print calls of lines 251-263, in the order they are made
ListDirsSteps(folders, a) ==
    Flatten([k \in 1..Len(folders) |->
        <<FolderStep(folders[k], a)>>
        \o (IF a.with_bookmarks
            THEN [i \in 1..Len(_iter_children(folders[k].folder)) |->
                     BookmarkStep(_iter_children(folders[k].folder)[i],
                                  folders[k], a)]
            ELSE <<>>)])

\* a loop of print calls: the lines printed before the first that raises
UntilRaise(steps) ==
    LET first == IF \E k \in 1..Len(steps) : steps[k].raises
                 THEN CHOOSE k \in 1..Len(steps) :
                          /\ steps[k].raises
                          /\ \A j \in 1..(k - 1) : ~steps[j].raises
                 ELSE Len(steps) + 1
    IN  Flatten([k \in 1..(first - 1) |-> steps[k].lines])

\* lines 251-263; --show-ids is read by the path format only, so it is
\* tried with that format alone
Output ==
    /\ pc = "selected"
    /\ \E format \in Formats, show_ids \in BOOLEAN, with_bookmarks \in BOOLEAN :
        /\ show_ids => format = S_path
        /\ args' = [args EXCEPT !.format = format, !.show_ids = show_ids,
                                !.with_bookmarks = with_bookmarks]
        /\ IF ListDirsRaises(folders_iter, args')
               THEN /\ stdout' = stdout
                                  \o UntilRaise(ListDirsSteps(folders_iter, args'))
                    /\ stderr' = Append(stderr, S_KeyError)
                    /\ exit_code' = Some(1)
                    /\ pc' = "raised"
               ELSE /\ stdout' = stdout \o ListDirsLines(folders_iter, args')
                    /\ exit_code' = Some(0)
                    /\ pc' = "done"
                    /\ UNCHANGED stderr
    /\ UNCHANGED <<data, folders_iter, ls_vars, hosts_vars, tools_vars>>

Next == Enumerate \/ Select \/ Output

Spec == Init /\ [][Next]_vars

(* ------------------------------------------------------------------ *)
(* The spec's example document (section 8)                             *)
(* ------------------------------------------------------------------ *)
ExampleWork ==
    [id |-> <<"2">>, type |-> S_folder, name |-> S_Work, children |-> <<>>]

\* as the spec gives it: the root node has id, name and children only
ExampleDocument ==
    [roots |-> RootsOf(<<[id |-> <<"1">>, name |-> S_bookmark_bar,
                          children |-> <<ExampleWork>>]>>)]

\* the same with "type": "folder" on the root node
ExampleDocumentTyped ==
    [roots |-> RootsOf(<<[type |-> S_folder, id |-> <<"1">>,
                          name |-> S_bookmark_bar,
                          children |-> <<ExampleWork>>]>>)]

InitExample ==
    /\ data \in ValidDocuments \cup {ExampleDocument, ExampleDocumentTyped}
    /\ InitRun
    /\ HostsIdle
    /\ ToolsIdle

SpecExample == InitExample /\ [][Next]_vars

(* ------------------------------------------------------------------ *)
(* Facts of a document, read off the tree and not off the walk         *)
(* ------------------------------------------------------------------ *)
\* the root entries that hold an object
DictRootIdx(d) == {k \in 1..Len(d.roots) : d.roots[k].isdict}

\* every folder of the document
DocFolders(d) == UNION {SubFolders(d.roots[k].value) : k \in DictRootIdx(d)}

\* the folders strictly below f
Descendants(f) == SubFolders(f) \ {f}

\* the folders from node down to target, both included; <<>> when target
\* is not in the subtree of node
RECURSIVE ChainTo(_, _)
ChainTo(node, target) ==
    IF ~IsFolder(node) THEN <<>>
    ELSE IF node = target THEN <<node>>
    ELSE LET ch == GetChildren(node)
             hit == {k \in 1..Len(ch) : target \in SubFolders(ch[k])}
         IN  IF hit = {} THEN <<>>
             ELSE <<node>> \o ChainTo(ch[CHOOSE k \in hit : TRUE], target)

\* the root entry whose tree holds folder f
RootEntryOf(d, f) ==
    d.roots[CHOOSE k \in DictRootIdx(d) : f \in SubFolders(d.roots[k].value)]

\* depth of folder f: 0 for a root folder
Depth(d, f) == Len(ChainTo(RootEntryOf(d, f).value, f)) - 1

\* position of folder f in a list of records
IndexOf(recs, f) == CHOOSE k \in 1..Len(recs) : recs[k].folder = f

\* the folders among a list of nodes, keeping the order
FoldersIn(nodes) == SelectSeq(nodes, IsFolder)

(* ------------------------------------------------------------------ *)
(* C1                                                                  *)
(* ------------------------------------------------------------------ *)
\* C1: the full-document enumeration is a pre-order depth-first walk: every
\* folder of the document appears exactly once and nothing else appears,
\* the descendants of a folder follow it directly (before any other folder),
\* and sibling folders - root folders included - appear in the order of
\* their parent's children list (of the document's keys).
C1_PreOrderWalk ==
    pc = "enumerated" =>
        LET recs == folders_iter
            all == DocFolders(data)
            rootfs == FoldersIn([k \in 1..Len(data.roots) |->
                         IF data.roots[k].isdict THEN data.roots[k].value
                         ELSE [type |-> None]])
            InOrder(sibs) ==
                \A i, j \in 1..Len(sibs) :
                    i < j => IndexOf(recs, sibs[i]) < IndexOf(recs, sibs[j])
        IN  /\ Len(recs) = Cardinality(all)
            /\ \A f \in all :
                  Cardinality({k \in 1..Len(recs) : recs[k].folder = f}) = 1
            /\ \A k \in 1..Len(recs) :
                  {j \in 1..Len(recs) : recs[j].folder \in Descendants(recs[k].folder)}
                  = (k + 1)..(k + Cardinality(Descendants(recs[k].folder)))
            /\ \A f \in all : InOrder(FoldersIn(GetChildren(f)))
            /\ InOrder(rootfs)

\* a folder with two folder children of which the first has a folder child
C1_Witness ==
    /\ pc = "enumerated"
    /\ \E f \in DocFolders(data) :
          LET sibs == FoldersIn(GetChildren(f))
          IN  Len(sibs) >= 2 /\ Descendants(sibs[1]) # {}

(* ------------------------------------------------------------------ *)
(* C2                                                                  *)
(* ------------------------------------------------------------------ *)
\* the names of the folders from the root folder down to f
NamesTo(d, f) ==
    LET chain == ChainTo(RootEntryOf(d, f).value, f)
    IN  [i \in 1..Len(chain) |-> chain[i].name]

RootValues(d) == {d.roots[k].value : k \in DictRootIdx(d)}

\* parent_id is none exactly for root folders, and otherwise the id of the
\* folder whose children list holds the folder
C3_ParentIds ==
    \A k \in 1..Len(folders_iter) :
        LET f == folders_iter[k].folder
            pid == folders_iter[k].parent_id
            holders == {p \in DocFolders(data) :
                           \E i \in 1..Len(GetChildren(p)) : GetChildren(p)[i] = f}
        IN  /\ (pid = None) <=> (f \in RootValues(data))
            /\ pid # None => holders # {}
            /\ \A p \in holders : pid = Some(p.id)

\* the two records the spec expects for its example
TwoExampleRecords ==
    /\ Len(folders_iter) = 2
    /\ folders_iter[1].folder.id = <<"1">>
    /\ folders_iter[1].parent_id = None
    /\ folders_iter[2].folder.id = <<"2">>
    /\ folders_iter[2].parent_id = Some(<<"1">>)

Resolving == pc \in {"selected", "exited"} /\ args.selector # <<>>

\* the folders whose id is the token
IdMatches(d, tok) == {f \in DocFolders(d) : f.id = tok}

\* the folders whose own name holds the token, letter case ignored
NameMatches(d, tok) == {f \in DocFolders(d) : Contains(Lower(f.name), Lower(tok))}

\* _match_selector returned folder f: the run went on, without a word on
\* stderr, to walk the subtree of f
Returned(f) ==
    /\ pc = "selected"
    /\ exit_code = None
    /\ stderr = <<>>
    /\ folders_iter # <<>>
    /\ folders_iter[1].folder = f

\* the run ended in failure with one line on stderr and nothing on stdout
Failed ==
    /\ pc = "exited"
    /\ exit_code = Some(1)
    /\ stdout = <<>>
    /\ Len(stderr) = 1

EndsWith(s, t) == Len(t) <= Len(s) /\ SubSeq(s, Len(s) - Len(t) + 1, Len(s)) = t

\* C4: a folder whose id equals the token verbatim is the one returned,
\* whatever folder names the token is a fragment of.
C4_IdShortCircuits ==
    Resolving => \A f \in IdMatches(data, args.selector) : Returned(f)

\* the token is the id of one folder and a fragment of the names of two
\* other folders
C4_Witness ==
    /\ Resolving
    /\ \E f \in IdMatches(data, args.selector) :
          /\ Returned(f)
          /\ Cardinality(NameMatches(data, args.selector) \ {f}) >= 2

\* C5: with no id equal to the token, a token that is a case-insensitive
\* fragment of exactly one folder's own name resolves to that folder.
C5_UniqueNameMatch ==
    (Resolving /\ IdMatches(data, args.selector) = {}) =>
        \A f \in NameMatches(data, args.selector) :
            NameMatches(data, args.selector) = {f} => Returned(f)

\* the one matching folder has a folder below it that does not match
\* by its own name (its path and its ancestor do hold the token), and the
\* token differs from the name in letter case
C5_Witness ==
    /\ Resolving
    /\ IdMatches(data, args.selector) = {}
    /\ \E f \in NameMatches(data, args.selector) :
          /\ NameMatches(data, args.selector) = {f}
          /\ Returned(f)
          /\ Descendants(f) # {}
          /\ ~Contains(f.name, args.selector)

\* C6: a token that is no folder's id and a fragment of no folder's name
\* returns no folder: the run fails, and its message holds the token, quoted.
C6_NoMatch ==
    (/\ Resolving
     /\ IdMatches(data, args.selector) = {}
     /\ NameMatches(data, args.selector) = {}) =>
        /\ Failed
        /\ Contains(stderr[1], <<"'">> \o args.selector \o <<"'">>)

\* a failed resolution of a token with an upper-case letter, in a document
\* with at least two folders
C6_Witness ==
    /\ Resolving
    /\ IdMatches(data, args.selector) = {}
    /\ NameMatches(data, args.selector) = {}
    /\ Failed
    /\ Cardinality(DocFolders(data)) >= 2
    /\ Lower(args.selector) # args.selector

\* the list the ambiguity message must end with: the matching folders in
\* traversal order, each as path segments joined by "/" and " (id:<id>)",
\* separated by ", "
ExpectedList(recs, tok) ==
    LET hit == SelectSeq(recs, LAMBDA r : r.folder \in NameMatches(data, tok))
    IN  Join(<<",", " ">>,
             [k \in 1..Len(hit) |->
                 Join(<<"/">>, hit[k].path_parts)
                 \o <<" ", "(", "i", "d", ":">> \o hit[k].folder.id \o <<")">>])

\* the sentence of the ambiguity message, as the spec words it
S_Sentence == <<"a", "m", "b", "i", "g", "u", "o", "u", "s", " ", "b", "o", "o", "k", "m", "a", "r", "k", " ", "f", "o", "l", "d", "e", "r", " ", "s", "e", "l", "e", "c", "t", "o", "r", ",", " ", "e", "x", "p", "e", "c", "t", "e", "d", " ", "o", "n", "e", " ", "f", "o", "l", "d", "e", "r", " ", "t", "o", " ", "m", "a", "t", "c", "h", " ", "w", "h", "i", "l", "e", " ", "a", "l", "l", " ", "t", "h", "e", "s", "e", " ", "f", "o", "l", "d", "e", "r", "s", " ", "m", "a", "t", "c", "h", ":", " ">>

\* the token matches two or more folders by name and none by id
Ambiguous ==
    /\ Resolving
    /\ IdMatches(data, args.selector) = {}
    /\ Cardinality(NameMatches(data, args.selector)) >= 2

\* C7: with two or more name matches and no id match the run fails, and
\* its message is the sentence followed by exactly the list of the matching
\* folders; no folder entry stands anywhere else in the message.
C7_AmbiguityList ==
    Ambiguous =>
        /\ Failed
        /\ LET list == ExpectedList(folders_iter, args.selector)
               line == stderr[1]
               before == SubSeq(line, 1, Len(line) - Len(list))
           IN  /\ EndsWith(line, list)
               /\ EndsWith(before, S_Sentence)
               /\ ~Contains(before, <<" ", "(", "i", "d", ":">>)

\* an ambiguity in a document that also has a folder that does not match
C7_Witness ==
    /\ Ambiguous
    /\ Failed
    /\ DocFolders(data) \ NameMatches(data, args.selector) # {}

\* C8 as claimed: the diagnostic is the severity prefix once, the sentence,
\* and the list.
C8_FixedWording ==
    Ambiguous =>
        stderr = <<S_ERROR \o <<":", " ">> \o S_Sentence
                   \o ExpectedList(folders_iter, args.selector)>>

(* ------------------------------------------------------------------ *)
(* C9                                                                  *)
(* ------------------------------------------------------------------ *)
\* the folder the resolver's rules single out for a token, when they do
ResolvedFolder(d, tok) ==
    IF IdMatches(d, tok) # {} THEN CHOOSE f \in IdMatches(d, tok) : TRUE
    ELSE CHOOSE f \in NameMatches(d, tok) : TRUE

\* C9: after a selector resolved to folder F the records are those of the
\* walk restarted at F: each folder of F's subtree once, F first with path
\* <<F's name>> and parent none, every other record with the names from F
\* down to its folder as path and a parent id.
C9_RestartedWalk ==
    (pc = "selected" /\ args.selector # <<>>) =>
        LET F == ResolvedFolder(data, args.selector)
            recs == folders_iter
        IN  /\ Len(recs) = Cardinality(SubFolders(F))
            /\ {recs[k].folder : k \in 1..Len(recs)} = SubFolders(F)
            /\ recs[1].folder = F
            /\ recs[1].path_parts = <<F.name>>
            /\ recs[1].parent_id = None
            /\ \A k \in 1..Len(recs) :
                  LET chain == ChainTo(F, recs[k].folder)
                  IN  /\ recs[k].path_parts = [i \in 1..Len(chain) |-> chain[i].name]
                      /\ recs[k].path_parts[1] = F.name
                      /\ k > 1 => recs[k].parent_id # None

\* the selected folder lies below a root folder and has a folder below it
C9_Witness ==
    /\ pc = "selected"
    /\ args.selector # <<>>
    /\ Depth(data, ResolvedFolder(data, args.selector)) >= 1
    /\ Descendants(ResolvedFolder(data, args.selector)) # {}
    /\ Len(folders_iter) >= 2

(* ------------------------------------------------------------------ *)
(* C10                                                                 *)
(* ------------------------------------------------------------------ *)
IsUrl(node) == GetType(node) = Some(S_url)

\* the bookmarks directly below the folder of record r
UrlsOf(r) == SelectSeq(GetChildren(r.folder), IsUrl)

\* number of lines the records before record k account for
RECURSIVE LinesBefore(_, _, _)
LinesBefore(recs, k, with_bookmarks) ==
    IF k <= 1 THEN 0
    ELSE LinesBefore(recs, k - 1, with_bookmarks) + 1
         + (IF with_bookmarks THEN Len(UrlsOf(recs[k - 1])) ELSE 0)

\* C10: in every format the output is, record by record, the folder's line
\* (the same line as without --with-bookmarks), then - with --with-bookmarks
\* only - one line per bookmark directly below the folder, in children
\* order, and then the next folder's line; nothing else is printed.
C10_Interleaving ==
    pc = "done" =>
        LET recs == folders_iter
            wb == args.with_bookmarks
            plain == [args EXCEPT !.with_bookmarks = FALSE]
            at(k) == LinesBefore(recs, k, wb)
        IN  /\ Len(stdout) = LinesBefore(recs, Len(recs) + 1, wb)
            /\ \A k \in 1..Len(recs) :
                  /\ stdout[at(k) + 1] =
                        _print_folder_line(recs[k].folder, recs[k].parent_id,
                                           recs[k].path_parts, plain)
                  /\ wb => \A i \in 1..Len(UrlsOf(recs[k])) :
                        stdout[at(k) + 1 + i] =
                            _bookmark_line(UrlsOf(recs[k])[i], recs[k].folder,
                                           recs[k].path_parts, args)

\* a run with --with-bookmarks over a folder that holds two bookmarks and is
\* followed by another folder in the walk
C10_Witness ==
    /\ pc = "done"
    /\ args.with_bookmarks
    /\ \E k \in 1..(Len(folders_iter) - 1) : Len(UrlsOf(folders_iter[k])) >= 2


(* ------------------------------------------------------------------ *)
(* The ls sub-command                                                  *)
(* ------------------------------------------------------------------ *)
S_urls == <<"u", "r", "l", "s">>
S_urls_titles == <<"u", "r", "l", "s", "_", "t", "i", "t", "l", "e", "s">>
S_markdown == <<"m", "a", "r", "k", "d", "o", "w", "n">>
S_all == <<"a", "l", "l">>
S_folders == <<"f", "o", "l", "d", "e", "r", "s">>
S_bookmarks == <<"b", "o", "o", "k", "m", "a", "r", "k", "s">>
S_SelectorRequired == <<"A", " ", "f", "o", "l", "d", "e", "r", " ", "s", "e", "l", "e", "c", "t", "o", "r", " ", "i", "s", " ", "r", "e", "q", "u", "i", "r", "e", "d", " ", "f", "o", "r", " ", "l", "s", " ", "s", "u", "b", "-", "c", "o", "m", "m", "a", "n", "d", ".">>

\* the line of a node in a contents format, whatever its kind
NodeLine(node, contents_format) ==
    IF node.type = S_folder
    THEN IF contents_format = S_urls THEN _folder_path(<<node.name>>)
         ELSE IF contents_format = S_urls_titles
         THEN _folder_path(<<node.name>>) \o <<"\t">> \o node.name
         ELSE IF contents_format = S_markdown
         THEN <<"*", " ", "*", "*">> \o node.name \o <<"*", "*">>
         ELSE JsonNode(node)
    ELSE IF contents_format = S_urls THEN node.url
         ELSE IF contents_format = S_urls_titles
         THEN node.url \o <<"\t">> \o node.name
         ELSE IF contents_format = S_markdown
         THEN <<"*", " ", "[">> \o node.name \o <<"]", "(">> \o node.url \o <<")">>
         ELSE JsonNode(node)

ContentsTypes == {S_all, S_folders, S_bookmarks}

ContentsFormats == {S_urls, S_urls_titles, S_markdown, S_jsonl}

\* a _print_node that prints a child of either kind under every filter
_print_node_nofilter(node, a) ==
    IF node.type \in {S_folder, S_url} /\ a.contents_format \in ContentsFormats
    THEN <<NodeLine(node, a.contents_format)>>
    ELSE <<>>

\* _print_node: the lines it prints (one or none)
_print_node(node, a) ==
    IF node.type = S_folder
    THEN IF a.contents_type \in {S_all, S_folders}
            /\ a.contents_format \in ContentsFormats
         THEN <<NodeLine(node, a.contents_format)>>
         ELSE <<>>
    ELSE IF node.type = S_url
    THEN IF a.contents_type \in {S_all, S_bookmarks}
            /\ a.contents_format \in ContentsFormats
         THEN <<NodeLine(node, a.contents_format)>>
         ELSE <<>>
    ELSE <<>>

\* the defaults of the ls parser; the selector is a required positional
DefaultLsArgs ==
    [selector |-> <<>>, contents_type |-> S_all,
     contents_format |-> S_urls_titles]

\* cmd_ls, lines 271-277
LsCollect ==
    /\ pc = "start"
    /\ args' = DefaultLsArgs
    /\ IF AllFoldersRaises(data)
       THEN /\ stderr' = Append(stderr, S_KeyError)
            /\ exit_code' = Some(1)
            /\ pc' = "raised"
            /\ UNCHANGED all_folders
       ELSE /\ all_folders' = AllFolders(data)
            /\ pc' = "ls_collected"
            /\ UNCHANGED <<stderr, exit_code>>
    /\ UNCHANGED <<data, folders_iter, stdout, folder_node, hosts_vars, tools_vars>>

\* cmd_ls, lines 279-283
LsSelect ==
    /\ pc = "ls_collected"
    /\ \E selector \in Selectors :
        /\ args' = [args EXCEPT !.selector = selector]
        /\ IF selector = <<>>
           THEN /\ stderr' = stderr \o log_error(S_SelectorRequired)
                /\ exit_code' = Some(1)
                /\ pc' = "exited"
                /\ UNCHANGED folder_node
           ELSE IF _match_selector_raises(all_folders)
           THEN /\ stderr' = Append(stderr, S_KeyError)
                /\ exit_code' = Some(1)
                /\ pc' = "raised"
                /\ UNCHANGED folder_node
           ELSE LET r == _match_selector(all_folders, selector)
                IN  IF r.returned = None
                    THEN /\ stderr' = stderr \o r.log
                         /\ exit_code' = Some(1)
                         /\ pc' = "exited"
                         /\ UNCHANGED folder_node
                    ELSE /\ folder_node' = r.returned
                         /\ pc' = "ls_selected"
                         /\ UNCHANGED <<stderr, exit_code>>
    /\ UNCHANGED <<data, folders_iter, stdout, all_folders, hosts_vars, tools_vars>>

\* the lines of the loop of lines 286-287
LsLines(folder, a) ==
    Flatten([k \in 1..Len(_iter_children(folder)) |->
                _print_node(_iter_children(folder)[k], a)])

\* _print_node for one child raises a KeyError when a key that is read is
\* missing
NodeRaises(node, a) ==
    LET reads == IF a.contents_format = S_urls_titles THEN {"name", "url"}
                 ELSE IF a.contents_format = S_urls THEN {"url"}
                 ELSE IF a.contents_format = S_markdown THEN {"name", "url"}
                 ELSE {}
    IN  \/ "type" \notin DOMAIN node
        \/ /\ node.type = S_folder
           /\ a.contents_type \in {S_all, S_folders}
           /\ ~((reads \ {"url"}) \subseteq DOMAIN node)
        \/ /\ node.type = S_url
           /\ a.contents_type \in {S_all, S_bookmarks}
           /\ ~(reads \subseteq DOMAIN node)

NodeStep(node, a) ==
    IF NodeRaises(node, a) THEN Raised ELSE Printed(_print_node(node, a))

LsSteps(folder, a) ==
    [k \in 1..Len(_iter_children(folder)) |->
        NodeStep(_iter_children(folder)[k], a)]

\* cmd_ls, lines 285-287
LsOutput ==
    /\ pc = "ls_selected"
    /\ \E contents_type \in ContentsTypes, contents_format \in ContentsFormats :
        /\ args' = [args EXCEPT !.contents_type = contents_type,
                                !.contents_format = contents_format]
        /\ IF \E k \in 1..Len(_iter_children(folder_node[1])) :
                 NodeRaises(_iter_children(folder_node[1])[k], args')
               THEN /\ stdout' = stdout
                                  \o UntilRaise(LsSteps(folder_node[1], args'))
                    /\ stderr' = Append(stderr, S_KeyError)
                    /\ exit_code' = Some(1)
                    /\ pc' = "raised"
               ELSE /\ stdout' = stdout \o LsLines(folder_node[1], args')
                    /\ exit_code' = Some(0)
                    /\ pc' = "ls_done"
                    /\ UNCHANGED stderr
    /\ UNCHANGED <<data, folders_iter, all_folders, folder_node, hosts_vars, tools_vars>>

NextLs == LsCollect \/ LsSelect \/ LsOutput

SpecLs == Init /\ [][NextLs]_vars

(* ------------------------------------------------------------------ *)
(* C11                                                                 *)
(* ------------------------------------------------------------------ *)
\* the direct children of a folder the kind filter keeps
KeptChildren(folder, contents_type) ==
    LET Keeps(c) == \/ IsFolder(c) /\ contents_type \in {S_all, S_folders}
                    \/ IsUrl(c) /\ contents_type \in {S_all, S_bookmarks}
    IN  SelectSeq(GetChildren(folder), Keeps)

\* C11: a finished ls run on the resolved folder has printed, in every
\* contents format, exactly one line per direct child of the kind the filter
\* keeps (bookmarks: the url children, folders: the folder children, all:
\* every child), in the order of the children list, and no line for a
\* grandchild.
C11_LsKindFilter ==
    pc = "ls_done" =>
        LET kept == KeptChildren(folder_node[1], args.contents_type)
        IN  /\ Len(stdout) = Len(kept)
            /\ \A k \in 1..Len(kept) :
                  stdout[k] = NodeLine(kept[k], args.contents_format)

\* an ls run filtered to folders on a folder that has a bookmark child and a
\* folder child with a child of its own
C11_Witness ==
    /\ pc = "ls_done"
    /\ args.contents_type = S_folders
    /\ \E k \in 1..Len(GetChildren(folder_node[1])) :
          IsUrl(GetChildren(folder_node[1])[k])
    /\ \E k \in 1..Len(GetChildren(folder_node[1])) :
          /\ IsFolder(GetChildren(folder_node[1])[k])
          /\ GetChildren(GetChildren(folder_node[1])[k]) # <<>>
    /\ Len(stdout) = 1

(* ------------------------------------------------------------------ *)
(* Both sub-commands                                                   *)
(* ------------------------------------------------------------------ *)
\* main dispatches to cmd_list_dirs or cmd_ls
NextCli == Next \/ NextLs

SpecCli == Init /\ [][NextCli]_vars

MaxSmallNodes == 3

\* the documents of section 3 with at most n nodes
RECURSIVE NodeCount(_)
NodeCount(node) ==
    LET RECURSIVE Sum(_, _)
        Sum(ch, k) == IF k = 0 THEN 0 ELSE Sum(ch, k - 1) + NodeCount(ch[k])
    IN  1 + Sum(GetChildren(node), Len(GetChildren(node)))

DocumentNodes(d) ==
    LET RECURSIVE Sum(_)
        Sum(k) == IF k = 0 THEN 0
                  ELSE Sum(k - 1) + (IF d.roots[k].isdict
                                     THEN NodeCount(d.roots[k].value) ELSE 0)
    IN  Sum(Len(d.roots))

\* comma, double quote, backslash, slash
SpecialChars == {",", "\"", "\\", "/"}

\* the node with character c put after the first character of every name
RECURSIVE WithChar(_, _)
WithChar(node, c) ==
    LET named == [node EXCEPT !.name = <<node.name[1], c>> \o Tail(node.name)]
    IN  IF "children" \in DOMAIN node
        THEN [named EXCEPT !.children =
                  [k \in 1..Len(node.children) |-> WithChar(node.children[k], c)]]
        ELSE named

NamedDocuments ==
    {[roots |-> [k \in 1..Len(d.roots) |->
                    IF d.roots[k].isdict
                    THEN [d.roots[k] EXCEPT !.value = WithChar(d.roots[k].value, c)]
                    ELSE d.roots[k]]]
        : d \in {v \in ValidDocuments : DocumentNodes(v) <= MaxSmallNodes},
          c \in SpecialChars}

InitNames == data \in NamedDocuments /\ InitRun /\ HostsIdle /\ ToolsIdle

SpecNames == InitNames /\ [][NextCli]_vars

(* ------------------------------------------------------------------ *)
(* C13                                                                 *)
(* ------------------------------------------------------------------ *)
\* the folder lines of a finished run, each with the name of its folder
FolderLines ==
    IF pc = "done"
    THEN [k \in 1..Len(folders_iter) |->
             [line |-> stdout[LinesBefore(folders_iter, k, args.with_bookmarks) + 1],
              name |-> folders_iter[k].folder.name,
              json |-> args.format = S_jsonl]]
    ELSE IF pc = "ls_done" /\ args.contents_type = S_folders
    THEN [k \in 1..Len(stdout) |->
             [line |-> stdout[k],
              name |-> KeptChildren(folder_node[1], S_folders)[k].name,
              json |-> args.contents_format = S_jsonl]]
    ELSE <<>>

\* s with a backslash put before each double quote and each backslash
RECURSIVE Backslashed(_)
Backslashed(s) ==
    IF s = <<>> THEN <<>>
    ELSE (IF Head(s) \in {"\"", "\\"} THEN <<"\\", Head(s)>> ELSE <<Head(s)>>)
         \o Backslashed(Tail(s))

RECURSIVE IndexOfChar(_, _)
IndexOfChar(s, c) ==
    IF s = <<>> THEN 0
    ELSE IF Head(s) = c THEN 1
    ELSE LET i == IndexOfChar(Tail(s), c) IN IF i = 0 THEN 0 ELSE i + 1

\* the fields of a csv line read the simple way: fields are separated by
\* commas; a field that opens with a double quote runs to the next double
\* quote, commas included, and what follows up to the next comma is dropped
RECURSIVE CsvFields(_)
CsvFields(s) ==
    IF s # <<>> /\ Head(s) = "\""
    THEN LET body == Tail(s)
             close == IndexOfChar(body, "\"")
             field == IF close = 0 THEN body ELSE SubSeq(body, 1, close - 1)
             after == IF close = 0 THEN <<>>
                      ELSE SubSeq(body, close + 1, Len(body))
             comma == IndexOfChar(after, ",")
         IN  IF comma = 0 THEN <<field>>
             ELSE <<field>> \o CsvFields(SubSeq(after, comma + 1, Len(after)))
    ELSE LET comma == IndexOfChar(s, ",")
         IN  IF comma = 0 THEN <<s>>
             ELSE <<SubSeq(s, 1, comma - 1)>>
                  \o CsvFields(SubSeq(s, comma + 1, Len(s)))

\* C14: every line of a finished csv listing is id,parent_id,"name" with the
\* name between double quotes, and reading the line back as quoted fields
\* gives the id, the parent id (empty for a root folder) and the original
\* name, whatever the name holds.
C14_CsvRoundTrip ==
    (pc = "done" /\ args.format = S_csv) =>
        LET recs == folders_iter
            wb == args.with_bookmarks
            at(k) == LinesBefore(recs, k, wb)
        IN  \A k \in 1..Len(recs) :
              /\ CsvFields(stdout[at(k) + 1]) =
                     <<recs[k].folder.id,
                       IF recs[k].parent_id = None THEN <<>>
                       ELSE recs[k].parent_id[1],
                       recs[k].folder.name>>
              /\ wb => \A i \in 1..Len(UrlsOf(recs[k])) :
                     CsvFields(stdout[at(k) + 1 + i]) =
                         <<UrlsOf(recs[k])[i].id, recs[k].folder.id,
                           UrlsOf(recs[k])[i].name>>

(* ------------------------------------------------------------------ *)
(* Documents that break the structure of section 3                     *)
(* ------------------------------------------------------------------ *)
RemoveKey(node, key) == [f \in DOMAIN node \ {key} |-> node[f]]

\* the node with key taken from the n-th node of its subtree, counted in
\* file order from the node itself
RECURSIVE DropIn(_, _, _)
DropIn(node, n, key) ==
    IF n = 1 THEN RemoveKey(node, key)
    ELSE IF "children" \notin DOMAIN node THEN node
    ELSE LET ch == node.children
             RECURSIVE Before(_)
             Before(k) == IF k = 1 THEN 1 ELSE Before(k - 1) + NodeCount(ch[k - 1])
         IN  [node EXCEPT !.children =
                 [k \in 1..Len(ch) |->
                     IF n > Before(k) /\ n <= Before(k) + NodeCount(ch[k])
                     THEN DropIn(ch[k], n - Before(k), key)
                     ELSE ch[k]]]

\* the same over the root folders of a document
DropInDocument(d, n, key) ==
    LET RECURSIVE Before(_)
        Before(k) == IF k = 1 THEN 0
                     ELSE Before(k - 1)
                          + (IF d.roots[k - 1].isdict
                             THEN NodeCount(d.roots[k - 1].value) ELSE 0)
    IN  [roots |-> [k \in 1..Len(d.roots) |->
            IF /\ d.roots[k].isdict
               /\ n > Before(k)
               /\ n <= Before(k) + NodeCount(d.roots[k].value)
            THEN [d.roots[k] EXCEPT
                     !.value = DropIn(d.roots[k].value, n - Before(k), key)]
            ELSE d.roots[k]]]

S_checksum == <<"c", "h", "e", "c", "k", "s", "u", "m">>

\* a document without "roots", and the small documents with one of type, id,
\* name, url missing on one node
MalformedDocuments ==
    {[checksum |-> S_checksum]}
    \cup ({DropInDocument(d, n, key)
              : d \in {v \in ValidDocuments : DocumentNodes(v) <= MaxSmallNodes},
                n \in 1..MaxSmallNodes,
                key \in {"type", "id", "name", "url"}}
          \ ValidDocuments)

InitMalformed == data \in MalformedDocuments /\ InitRun /\ HostsIdle /\ ToolsIdle

SpecMalformed == InitMalformed /\ [][NextCli]_vars

(* ------------------------------------------------------------------ *)
(* C15                                                                 *)
(* ------------------------------------------------------------------ *)
\* section 4.1: a node has type, id and name, a folder's children are
\* nodes, a bookmark has url
RECURSIVE WellFormedNode(_)
WellFormedNode(node) ==
    /\ {"type", "id", "name"} \subseteq DOMAIN node
    /\ node.type = S_url => "url" \in DOMAIN node
    /\ \A k \in 1..Len(GetChildren(node)) :
          WellFormedNode(GetChildren(node)[k])

WellFormed(d) ==
    /\ "roots" \in DOMAIN d
    /\ \A k \in 1..Len(d.roots) :
          d.roots[k].isdict => WellFormedNode(d.roots[k].value)

\* C15: a run on a structurally invalid document (no roots, a node without
\* type, id or name, a bookmark without url) does not end with status 0 and
\* prints no line: the offending node is never skipped while the rest is
\* listed.
C15_MalformedFails ==
    ~WellFormed(data) => (exit_code # Some(0) /\ stdout = <<>>)

(* ------------------------------------------------------------------ *)
(* Documents whose nodes carry keys the tool does not read             *)
(* ------------------------------------------------------------------ *)
\* ways to add keys: a guid on every node, a guid and a date on every node,
\* a date on the folders only
Decorations == {<<{"guid"}, {"guid"}>>,
                <<{"guid", "date_added"}, {"guid", "date_added"}>>,
                <<{"date_added"}, {}>>}

\* the node with the keys of decoration dec added, to it and below it
RECURSIVE Decorated(_, _)
Decorated(node, dec) ==
    LET extra == IF node.type = S_folder THEN dec[1] ELSE dec[2]
        below == IF "children" \in DOMAIN node
                 THEN [node EXCEPT !.children =
                          [k \in 1..Len(node.children) |->
                              Decorated(node.children[k], dec)]]
                 ELSE node
    IN  [f \in DOMAIN node \cup extra |->
            IF f \in DOMAIN node THEN below[f]
            ELSE IF f = "guid" THEN <<"g">> \o node.id
            ELSE <<"1", "3">> \o node.id]

DecoratedDocuments ==
    {[roots |-> [k \in 1..Len(d.roots) |->
                    IF d.roots[k].isdict
                    THEN [d.roots[k] EXCEPT
                             !.value = Decorated(d.roots[k].value, dec)]
                    ELSE d.roots[k]]]
        : d \in {v \in ValidDocuments : DocumentNodes(v) <= MaxSmallNodes},
          dec \in Decorations}

InitDecorated == data \in DecoratedDocuments /\ InitRun /\ HostsIdle /\ ToolsIdle

SpecDecorated == InitDecorated /\ [][NextCli]_vars

(* ------------------------------------------------------------------ *)
(* C16                                                                 *)
(* ------------------------------------------------------------------ *)
\* the node with the keys of section 3 only, it and the nodes below it
RECURSIVE Stripped(_)
Stripped(node) ==
    [f \in DOMAIN node \cap {"type", "id", "name", "url", "children"} |->
        IF f = "children"
        THEN [k \in 1..Len(node.children) |-> Stripped(node.children[k])]
        ELSE node[f]]

StrippedDocument(d) ==
    [roots |-> [k \in 1..Len(d.roots) |->
                   IF d.roots[k].isdict
                   THEN [d.roots[k] EXCEPT !.value = Stripped(d.roots[k].value)]
                   ELSE d.roots[k]]]

\* what the claim compares of a list of records
IdsAndPaths(recs) ==
    [k \in 1..Len(recs) |->
        [id |-> recs[k].folder.id, parent_id |-> recs[k].parent_id,
         path_parts |-> recs[k].path_parts]]

\* C16: on a document whose nodes carry extra keys no step ends in an
\* exception, the full enumeration has the ids, parent ids, paths and order
\* it has on the document without those keys, and every token resolves to
\* the folder of the same id, or fails with the same message, as on the
\* document without them.
C16_ExtraFieldsIgnored ==
    LET plain == AllFolders(StrippedDocument(data))
        r == _match_selector(plain, args.selector)
    IN  /\ pc # "raised"
        /\ pc = "enumerated" => IdsAndPaths(folders_iter) = IdsAndPaths(plain)
        /\ pc = "ls_collected" => IdsAndPaths(all_folders) = IdsAndPaths(plain)
        /\ (pc = "exited" /\ args.selector # <<>>) =>
              r.returned = None /\ stderr = r.log
        /\ (pc = "selected" /\ args.selector # <<>>) =>
              /\ r.returned # None
              /\ folders_iter[1].folder.id = r.returned[1].id
        /\ pc = "ls_selected" =>
              /\ r.returned # None
              /\ folder_node[1].id = r.returned[1].id

\* a token resolved to a folder below the root on a document whose folders
\* all carry a guid
C16_Witness ==
    /\ pc = "selected"
    /\ args.selector # <<>>
    /\ "guid" \in DOMAIN folders_iter[1].folder
    /\ \E k \in 1..Len(data.roots) :
          /\ data.roots[k].isdict
          /\ "guid" \in DOMAIN data.roots[k].value
          /\ data.roots[k].value.id # folders_iter[1].folder.id

(* ------------------------------------------------------------------ *)
(* Documents in which an id is used twice                              *)
(* ------------------------------------------------------------------ *)
\* the last node of the document takes the id of the first
DuplicateIdMaps(n) == {[i \in 1..n |-> IdStr(IF i = n THEN 1 ELSE i)]}

DuplicateIdDocuments ==
    UNION {{[roots |-> RootsOf(f)]
              : f \in {g \in Forests(n, 1, ids) :
                          /\ Len(g) <= Len(RootKeys)
                          /\ \A k \in 1..Len(g) : g[k].type = S_folder}}
           : <<n, ids>> \in {<<m, im>> \in (2..MaxSmallNodes)
                                 \X UNION {DuplicateIdMaps(j) : j \in 2..MaxSmallNodes} :
                                im \in DuplicateIdMaps(m)}}

InitDuplicateIds ==
    /\ data \in {v \in ValidDocuments : DocumentNodes(v) <= MaxSmallNodes}
                \cup DuplicateIdDocuments
    /\ InitRun
    /\ HostsIdle
    /\ ToolsIdle

SpecDuplicateIds == InitDuplicateIds /\ [][NextCli]_vars

(* ------------------------------------------------------------------ *)
(* C17                                                                 *)
(* ------------------------------------------------------------------ *)
\* the selector of the run has been looked at
SelectorRead == pc \notin {"start", "enumerated", "ls_collected"}

\* the selector of the run resolves to no folder of the document
ResolutionFails ==
    /\ args.selector # <<>>
    /\ _match_selector(AllFolders(data), args.selector).returned = None

\* C17: in list-dirs and in ls the selector is resolved before the first
\* line is printed. A run whose selector resolves to no folder (no match,
\* several name matches, an id used twice), and an ls run without selector,
\* ends with a non-zero status and nothing on stdout; a run that has printed
\* a line is a list-dirs run without selector or a run whose selector
\* resolved to a folder.
C17_ResolveBeforeOutput ==
    /\ (SelectorRead /\ ResolutionFails) =>
          stdout = <<>> /\ exit_code = Some(1) /\ pc = "exited"
    /\ (pc = "exited" /\ args.selector = <<>>) =>
          stdout = <<>> /\ exit_code = Some(1)
    /\ stdout # <<>> =>
          \/ pc = "done" /\ args.selector = <<>>
          \/ pc \in {"done", "ls_done"} /\ args.selector # <<>>
                                        /\ ~ResolutionFails

\* a run refused because the token is the id of two folders
C17_Witness ==
    /\ pc = "exited"
    /\ stdout = <<>>
    /\ Len(stderr) = 1
    /\ Contains(stderr[1], S_Internal)

(* ------------------------------------------------------------------ *)
(* The hosts-file tools (etc_hosts_manage.py, host_manage.py)          *)
(* ------------------------------------------------------------------ *)
DEFAULT_MARKER == <<"#", " ", "M", "a", "n", "a", "g", "e", "d", "B", "y", "H", "o", "s", "t", "s", "T", "o", "o", "l">>

\* the characters str.strip and str.split take for white space
Whitespace == {" ", "\t", "\n"}

lstrip(s) ==
    LET RECURSIVE From(_)
        From(i) == IF i <= Len(s) /\ s[i] \in Whitespace
                   THEN From(i + 1) ELSE i
    IN  SubSeq(s, From(1), Len(s))

rstrip(s) ==
    LET RECURSIVE To(_)
        To(i) == IF i >= 1 /\ s[i] \in Whitespace THEN To(i - 1) ELSE i
    IN  SubSeq(s, 1, To(Len(s)))

strip(s) == rstrip(lstrip(s))

\* str.split(): the runs of characters between white space
split(s) ==
    LET \* the words from position i on; start is where the word that holds
        \* position i - 1 began, 0 between words
        RECURSIVE Words(_, _)
        Words(i, start) ==
            IF i > Len(s)
            THEN IF start = 0 THEN <<>> ELSE <<SubSeq(s, start, Len(s))>>
            ELSE IF s[i] \in Whitespace
            THEN IF start = 0 THEN Words(i + 1, 0)
                 ELSE <<SubSeq(s, start, i - 1)>> \o Words(i + 1, 0)
            ELSE Words(i + 1, IF start = 0 THEN i ELSE start)
    IN  Words(1, 0)

\* str.endswith
endswith(s, suffix) ==
    /\ Len(suffix) <= Len(s)
    /\ SubSeq(s, Len(s) - Len(suffix) + 1, Len(s)) = suffix

\* parse_line_components: (original_line, ip, hostname, comment, trailing,
\* is_commented_out)
parse_line_components(line) ==
    LET stripped == strip(line)
        is_commented_out == stripped # <<>> /\ Head(stripped) = "#"
        body == IF is_commented_out THEN strip(Tail(stripped)) ELSE stripped
        parts == split(body)
        Placeholders == [original_line |-> line, ip |-> <<>>,
                         hostname |-> <<>>, comment |-> <<>>,
                         trailing |-> <<>>,
                         is_commented_out |-> is_commented_out]
    IN  IF stripped = <<>> THEN Placeholders
        ELSE IF Len(parts) < 2 THEN Placeholders
        ELSE [original_line |-> line, ip |-> parts[1], hostname |-> parts[2],
              comment |-> <<>>,
              trailing |-> Join(<<" ">>, SubSeq(parts, 3, Len(parts))),
              is_commented_out |-> is_commented_out]

\* build_line
build_line(ip, hostname, comment, marker, is_commented_out) ==
    LET final_line ==
            ip \o <<" ">> \o hostname
            \o (IF strip(comment) # <<>> THEN <<" ">> \o strip(comment) ELSE <<>>)
            \o (IF strip(marker) # <<>> THEN <<" ">> \o strip(marker) ELSE <<>>)
    IN  IF is_commented_out THEN <<"#", " ">> \o final_line ELSE final_line

\* Variant of find_line_index that looks at the hostname only.
find_line_index_anymarker(lines, hostname, marker) ==
    LET Hit(i) == parse_line_components(lines[i]).hostname = hostname
        RECURSIVE From(_)
        From(i) == IF i > Len(lines) THEN 0
                   ELSE IF Hit(i) THEN i ELSE From(i + 1)
    IN  From(1)

\* find_line_index: the position (from 1) of the first line of that
\* hostname whose trailing text ends with the marker, 0 for None
find_line_index(lines, hostname, marker) ==
    LET Hit(i) == LET c == parse_line_components(lines[i])
                  IN  /\ c.hostname = hostname
                      /\ marker = <<>> \/ endswith(c.trailing, marker)
        RECURSIVE From(_)
        From(i) == IF i > Len(lines) THEN 0
                   ELSE IF Hit(i) THEN i ELSE From(i + 1)
    IN  From(1)

\* the entry functions give the new line list, or end the run by
\* error_exit(..., 1)
Returns(lines) == [error |-> FALSE, lines_data |-> lines]

ErrorExit(lines) == [error |-> TRUE, lines_data |-> lines]

\* Variant of add_entry that replaces the line of a hostname that is there
\* already.
add_entry_replace(lines, ip, hostname, user_comment, marker) ==
    LET idx == find_line_index(lines, hostname, marker)
        new_line == build_line(ip, hostname, user_comment, marker, FALSE)
    IN  IF idx # 0 THEN Returns([lines EXCEPT ![idx] = new_line])
        ELSE Returns(Append(lines, new_line))

\* add_entry
add_entry(lines, ip, hostname, user_comment, marker) ==
    LET idx == find_line_index(lines, hostname, marker)
    IN  IF idx # 0 THEN ErrorExit(lines)
        ELSE Returns(Append(lines,
                 build_line(ip, hostname, user_comment, marker, FALSE)))

\* Variant of update_entry that writes the rewritten line enabled.
update_entry_enabled(lines, ip, hostname, user_comment, marker) ==
    LET idx == find_line_index(lines, hostname, marker)
    IN  IF idx = 0 THEN add_entry(lines, ip, hostname, user_comment, marker)
        ELSE Returns([lines EXCEPT ![idx] =
                 build_line(ip, hostname, user_comment, marker, FALSE)])

\* update_entry
update_entry(lines, ip, hostname, user_comment, marker) ==
    LET idx == find_line_index(lines, hostname, marker)
    IN  IF idx = 0 THEN add_entry(lines, ip, hostname, user_comment, marker)
        ELSE Returns([lines EXCEPT ![idx] =
                 build_line(ip, hostname, user_comment, marker,
                            parse_line_components(lines[idx]).is_commented_out)])

\* disable_entry
disable_entry(lines, hostname, marker) ==
    LET idx == find_line_index(lines, hostname, marker)
        c == parse_line_components(lines[idx])
    IN  IF idx = 0 THEN ErrorExit(lines)
        ELSE IF c.is_commented_out THEN Returns(lines)
        ELSE Returns([lines EXCEPT ![idx] =
                 build_line(c.ip, c.hostname, <<>>, c.trailing, TRUE)])

\* Variant of enable_entry that rebuilds the line from the ip, the hostname
\* and the marker alone.
enable_entry_nocomment(lines, hostname, marker) ==
    LET idx == find_line_index(lines, hostname, marker)
        c == parse_line_components(lines[idx])
    IN  IF idx = 0 THEN ErrorExit(lines)
        ELSE IF ~c.is_commented_out THEN Returns(lines)
        ELSE Returns([lines EXCEPT ![idx] =
                 build_line(c.ip, c.hostname, <<>>, marker, FALSE)])

\* enable_entry
enable_entry(lines, hostname, marker) ==
    LET idx == find_line_index(lines, hostname, marker)
        c == parse_line_components(lines[idx])
    IN  IF idx = 0 THEN ErrorExit(lines)
        ELSE IF ~c.is_commented_out THEN Returns(lines)
        ELSE Returns([lines EXCEPT ![idx] =
                 build_line(c.ip, c.hostname, <<>>, c.trailing, FALSE)])

\* delete_entry
delete_entry(lines, hostname, marker) ==
    LET idx == find_line_index(lines, hostname, marker)
    IN  IF idx = 0 THEN ErrorExit(lines)
        ELSE Returns(SubSeq(lines, 1, idx - 1)
                     \o SubSeq(lines, idx + 1, Len(lines)))

\* parse_local_file: the lines of the file
parse_hosts(file) == file

\* write_local_file: the lines of a file holding "\n".join(lines) + "\n";
\* for an empty list that is one empty line
written(lines) == IF lines = <<>> THEN <<<<>>>> ELSE lines

\* number of runs of the tool in a behaviour
MaxRuns == 2

Hostnames == {<<"h">>, <<"g">>}

Ips == {<<"1">>, <<"2">>}

Comments == {<<>>, <<"c">>}

Markers == {DEFAULT_MARKER, <<"#", "m">>}

\* lines found in the file before the first run
Line_plain == <<"1", " ", "h">>
Line_spaced == <<"1", " ", " ", "h", " ", " ", "c", " ", " ">> \o DEFAULT_MARKER
Line_off == <<"#", "2", " ", "g", " ", "#", "m">>
Line_note == <<"#", " ", "n", "o", "t", "e">>
Line_g == <<"1", " ", "g", " ">> \o DEFAULT_MARKER
Line_short == <<"2", " ", "h", " ", "#", "m">>
\* build_line("1", "h", "c  d", "#m", False) and build_line("2", "g", "c", "#m", False)
Line_wide == <<"1", " ", "h", " ", "c", " ", " ", "d", " ", "#", "m">>
Line_built == <<"2", " ", "g", " ", "c", " ", "#", "m">>

InitialFiles ==
    {<<>>,
     <<Line_plain, Line_spaced>>,
     <<Line_spaced, Line_plain, Line_short>>,
     <<Line_off, Line_g>>,
     <<Line_note, <<>>, Line_short>>,
     <<Line_g, Line_off, Line_plain>>,
     <<Line_wide, Line_built>>}

\* the end of a run of main: after error_exit nothing is written; else
\* write_hosts makes the backup and writes the list, and the status is 0
Finish(r) ==
    /\ lines_data' = r.lines_data
    /\ IF r.error
       THEN /\ hosts_exit' = Some(1)
            /\ UNCHANGED <<hosts_file, hosts_bak>>
       ELSE /\ hosts_bak' = Some(hosts_file)
            /\ hosts_file' = written(r.lines_data)
            /\ hosts_exit' = Some(0)
    /\ hosts_runs' = hosts_runs + 1
    /\ UNCHANGED <<data, args, pc, folders_iter, stdout, stderr, exit_code,
                   ls_vars, tools_vars>>

HostsArgs(command, ip, hostname, comment) ==
    [command |-> command, ip |-> ip, hostname |-> hostname,
     comment |-> comment, marker |-> hosts_args.marker]

HostsAdd ==
    /\ hosts_runs < MaxRuns
    /\ \E ip \in Ips, hostname \in Hostnames, comment \in Comments :
        /\ hosts_args' = HostsArgs("add", ip, hostname, comment)
        /\ Finish(add_entry(parse_hosts(hosts_file), ip, hostname, comment,
                            hosts_args.marker))

HostsUpdate ==
    /\ hosts_runs < MaxRuns
    /\ \E ip \in Ips, hostname \in Hostnames, comment \in Comments :
        /\ hosts_args' = HostsArgs("update", ip, hostname, comment)
        /\ Finish(update_entry(parse_hosts(hosts_file), ip, hostname, comment,
                               hosts_args.marker))

HostsDisable ==
    /\ hosts_runs < MaxRuns
    /\ \E hostname \in Hostnames :
        /\ hosts_args' = HostsArgs("disable", <<>>, hostname, <<>>)
        /\ Finish(disable_entry(parse_hosts(hosts_file), hostname,
                                hosts_args.marker))

HostsEnable ==
    /\ hosts_runs < MaxRuns
    /\ \E hostname \in Hostnames :
        /\ hosts_args' = HostsArgs("enable", <<>>, hostname, <<>>)
        /\ Finish(enable_entry(parse_hosts(hosts_file), hostname,
                               hosts_args.marker))

HostsDelete ==
    /\ hosts_runs < MaxRuns
    /\ \E hostname \in Hostnames :
        /\ hosts_args' = HostsArgs("delete", <<>>, hostname, <<>>)
        /\ Finish(delete_entry(parse_hosts(hosts_file), hostname,
                               hosts_args.marker))

NextHosts ==
    HostsAdd \/ HostsUpdate \/ HostsDisable \/ HostsEnable \/ HostsDelete

\* the file as found, no run yet; the marker option is the same in every
\* run of a behaviour
InitHosts ==
    /\ data = [roots |-> <<>>]
    /\ InitRun
    /\ hosts_file \in InitialFiles
    /\ hosts_bak = None
    /\ \E marker \in Markers :
          hosts_args = [command |-> "", ip |-> <<>>, hostname |-> <<>>,
                        comment |-> <<>>, marker |-> marker]
    /\ hosts_exit = None
    /\ lines_data = <<>>
    /\ hosts_runs = 0
    /\ ToolsIdle

SpecHosts == InitHosts /\ [][NextHosts]_vars

(* ------------------------------------------------------------------ *)
(* C19                                                                 *)
(* ------------------------------------------------------------------ *)
\* a line whose parsed hostname is h and whose trailing text ends with m
Managed(line, h, m) ==
    LET c == parse_line_components(line)
    IN  c.hostname = h /\ endswith(c.trailing, m)

\* new is old, or old with one line for h and m rewritten or removed, or
\* old with one line added at the end
OneLineChange(old, new, h, m) ==
    \/ new = old
    \/ /\ Len(new) = Len(old) + 1
       /\ SubSeq(new, 1, Len(old)) = old
    \/ \E i \in 1..Len(old) :
          /\ Managed(old[i], h, m)
          /\ \/ /\ Len(new) = Len(old)
                /\ \A j \in 1..Len(old) : j # i => new[j] = old[j]
             \/ new = SubSeq(old, 1, i - 1) \o SubSeq(old, i + 1, Len(old))

\* C19: with a non-empty marker, a run of add, update, disable, enable or
\* delete changes at most one line of the line list it read; a line it
\* rewrites or removes is one whose parsed hostname is the given hostname
\* and whose trailing text ends with the marker; every other line keeps its
\* content and its place among the others, run after run.
C19_OneLineTouched ==
    [][hosts_runs' # hosts_runs =>
          OneLineChange(hosts_file, lines_data', hosts_args'.hostname,
                        hosts_args'.marker)]_vars

\* a disable that rewrote the marked line of h in a file that also holds an
\* unmarked line of h
C19_Witness ==
    /\ hosts_args.command = "disable"
    /\ hosts_exit = Some(0)
    /\ lines_data # hosts_bak[1]
    /\ \E i \in 1..Len(lines_data) :
          lines_data[i] = Line_plain /\ hosts_bak[1][i] = Line_plain
    /\ hosts_args.hostname = <<"h">>

(* ------------------------------------------------------------------ *)
(* C20                                                                 *)
(* ------------------------------------------------------------------ *)
HasManaged(lines, h, m) == \E i \in 1..Len(lines) : Managed(lines[i], h, m)

\* C20: an add for a hostname that has a line ending with the marker,
\* enabled or commented out, and a disable, enable or delete for a hostname
\* that has none, ends with a non-zero status, leaves the line list as read
\* and writes neither the hosts file nor a backup.
C20_Refusals ==
    [][(/\ hosts_runs' # hosts_runs
        /\ \/ /\ hosts_args'.command = "add"
              /\ HasManaged(hosts_file, hosts_args'.hostname, hosts_args'.marker)
           \/ /\ hosts_args'.command \in {"disable", "enable", "delete"}
              /\ ~HasManaged(hosts_file, hosts_args'.hostname,
                             hosts_args'.marker))
       => /\ hosts_exit' \notin {None, Some(0)}
          /\ lines_data' = hosts_file
          /\ hosts_file' = hosts_file
          /\ hosts_bak' = hosts_bak]_vars

\* an add refused for a hostname whose marked line is commented out
C20_Witness ==
    /\ hosts_args.command = "add"
    /\ hosts_exit = Some(1)
    /\ \E i \in 1..Len(hosts_file) :
          /\ Managed(hosts_file[i], hosts_args.hostname, hosts_args.marker)
          /\ parse_line_components(hosts_file[i]).is_commented_out

(* ------------------------------------------------------------------ *)
(* src/envsync.py                                                      *)
(* ------------------------------------------------------------------ *)
S_source == <<"s", "o", "u", "r", "c", "e", " ">>
S_dot_bashrc == <<".", "b", "a", "s", "h", "r", "c">>
S_LoadComment == <<"#", " ", "L", "o", "a", "d", " ", "c", "u", "s", "t", "o", "m", " ", "e", "n", "v", " ", "v", "a", "r", "i", "a", "b", "l", "e", "s">>
S_InvalidTarget == <<"E", "R", "R", "O", "R", ":", " ", "I", "n", "v", "a", "l", "i", "d", " ", "S", "S", "H", " ", "t", "a", "r", "g", "e", "t", " ", "f", "o", "r", "m", "a", "t", ":", " ">>
S_ShouldBe == <<" ", "#", " ", "s", "h", "o", "u", "l", "d", " ", "b", "e", " ", "u", "s", "r", "@", "s", "r", "v", ":", "~", "/", "p", "a", "t", "h">>
S_ScpFailed == <<"E", "R", "R", "O", "R", ":", " ", "S", "C", "P", " ", "f", "a", "i", "l", "e", "d", ".">>

\* the list profile_files of find_best_profile, in its order
profile_files ==
    <<<<"~", "/", ".", "p", "r", "o", "f", "i", "l", "e">>,
      <<"~", "/", ".", "x", "p", "r", "o", "f", "i", "l", "e">>,
      <<"~", "/", ".", "b", "a", "s", "h", "r", "c">>>>

\* index of the first c in s at or after position i, 0 if there is none
RECURSIVE FirstFrom(_, _, _)
FirstFrom(s, c, i) ==
    IF i > Len(s) THEN 0
    ELSE IF s[i] = c THEN i ELSE FirstFrom(s, c, i + 1)

\* re.match(r'([^@]+)@([^:]+):(.+)', target): the groups, or None.  Each
\* group is greedy and cannot cross its delimiter; '.' stops at a newline.
parse_ssh_target(target) ==
    LET at == FirstFrom(target, "@", 1)
        colon == IF at = 0 THEN 0 ELSE FirstFrom(target, ":", at + 1)
        nl == IF colon = 0 THEN 0 ELSE FirstFrom(target, "\n", colon + 1)
        last == IF nl = 0 THEN Len(target) ELSE nl - 1
    IN  IF at >= 2 /\ colon >= at + 2 /\ last >= colon + 1
        THEN Some([user |-> SubSeq(target, 1, at - 1),
                   server |-> SubSeq(target, at + 1, colon - 1),
                   remote_file |-> SubSeq(target, colon + 1, last)])
        ELSE None

\* the lines of a text file as grep reads them: the pieces ended by a
\* newline, and the piece after the last newline when it is not empty
RECURSIVE FileLines(_)
FileLines(text) ==
    LET nl == FirstFrom(text, "\n", 1)
    IN  IF text = <<>> THEN <<>>
        ELSE IF nl = 0 THEN <<text>>
        ELSE <<SubSeq(text, 1, nl - 1)>>
             \o FileLines(SubSeq(text, nl + 1, Len(text)))

\* grep -Fxq 'line' file && echo found || echo missing : a missing file
\* makes grep fail
grep_Fxq(line, file) ==
    /\ file # None
    /\ \E i \in 1..Len(FileLines(file[1])) : FileLines(file[1])[i] = line

\* echo 'text' >> file : the shell creates a missing file and writes the
\* text and a newline after the last byte of the file
echo_append(text, file) ==
    Some((IF file = None THEN <<>> ELSE file[1]) \o text \o <<"\n">>)

\* what echo -e '\n# Load custom env variables\n<source_line>' writes
\* before its final newline: a shell whose echo has no option -e (dash)
\* prints the word -e and expands the escapes all the same
echo_e_text(source_line, takes_e) ==
    (IF takes_e THEN <<>> ELSE <<"-", "e", " ">>)
    \o <<"\n">> \o S_LoadComment \o <<"\n">> \o source_line

\* find_best_profile: the first of profile_files that exists, else the
\* first of the list
find_best_profile(profiles) ==
    IF \E i \in 1..Len(profile_files) : profiles[profile_files[i]] # None
    THEN profile_files[CHOOSE i \in 1..Len(profile_files) :
             /\ profiles[profile_files[i]] # None
             /\ \A j \in 1..(i - 1) : profiles[profile_files[j]] = None]
    ELSE profile_files[1]

\* add_source_to_profile: the remote profiles after the call
add_source_to_profile(profiles, remote_env_file, profile, takes_e) ==
    LET source_line == S_source \o remote_env_file
    IN  IF grep_Fxq(source_line, profiles[profile])
        THEN profiles
        ELSE [profiles EXCEPT ![profile] =
                 echo_append(IF endswith(profile, S_dot_bashrc)
                             THEN echo_e_text(source_line, takes_e)
                             ELSE source_line,
                             profiles[profile])]

\* number of runs of envsync in a behaviour
MaxSyncRuns == 2

S_local_file == <<"v", "a", "r", "s">>

Targets == {<<"u", "@", "s", ":", "r">>,
            <<"u", "@", "s", ":", "q">>,
            <<"u", "s", ":", "r">>}

\* what a profile file holds before the first run
ProfileTexts ==
    {<<>>,
     <<"A", "=", "1", "\n">>,
     <<"A", "=", "1">>,
     <<"s", "o", "u", "r", "c", "e", " ", "r", "\n">>,
     <<"s", "o", "u", "r", "c", "e", " ", "r">>,
     <<" ", "s", "o", "u", "r", "c", "e", " ", "r", "\n">>}

RemoteAccounts ==
    [{profile_files[i] : i \in 1..Len(profile_files)}
        -> {None} \cup {Some(text) : text \in ProfileTexts}]

\* the end of a run of main
EnvsyncEnd(status) ==
    /\ envsync_exit' = Some(status)
    /\ envsync_pc' = "idle"
    /\ envsync_runs' = envsync_runs + 1

\* main up to copy_file: the target is parsed, then scp copies the file
EnvsyncCopy ==
    /\ envsync_pc = "idle"
    /\ envsync_runs < MaxSyncRuns
    /\ \E target \in Targets, scp_ok \in BOOLEAN :
        LET parsed == parse_ssh_target(target)
        IN  /\ envsync_args' = Some([local_file |-> S_local_file,
                                     target |-> target])
            /\ profile_file' = None
            /\ IF parsed = None
               THEN /\ stderr' = Append(stderr,
                                        S_InvalidTarget \o target \o S_ShouldBe)
                    /\ remote_file' = None
                    /\ EnvsyncEnd(1)
                    /\ UNCHANGED remote_copied
               ELSE /\ remote_file' = Some(parsed[1].remote_file)
                    /\ IF scp_ok
                       THEN /\ remote_copied' = Some(parsed[1].remote_file)
                            /\ envsync_pc' = "copied"
                            /\ envsync_exit' = None
                            /\ UNCHANGED <<stderr, envsync_runs>>
                       ELSE /\ stderr' = Append(stderr, S_ScpFailed)
                            /\ EnvsyncEnd(1)
                            /\ UNCHANGED remote_copied
    /\ UNCHANGED <<data, args, pc, folders_iter, stdout, exit_code, ls_vars,
                   hosts_vars, remote_profiles, remote_echo_e, paste_vars>>

\* main: profile_file = find_best_profile(...)
EnvsyncFindProfile ==
    /\ envsync_pc = "copied"
    /\ profile_file' = Some(find_best_profile(remote_profiles))
    /\ envsync_pc' = "profiled"
    /\ UNCHANGED <<data, args, pc, folders_iter, stdout, stderr, exit_code,
                   ls_vars, hosts_vars, remote_profiles, remote_echo_e,
                   remote_copied, envsync_args, remote_file, envsync_exit,
                   envsync_runs, paste_vars>>

\* main: add_source_to_profile(...), after which main returns
EnvsyncAddSource ==
    /\ envsync_pc = "profiled"
    /\ remote_profiles' =
           add_source_to_profile(remote_profiles, remote_file[1],
                                 profile_file[1], remote_echo_e)
    /\ EnvsyncEnd(0)
    /\ UNCHANGED <<data, args, pc, folders_iter, stdout, stderr, exit_code,
                   ls_vars, hosts_vars, remote_echo_e, remote_copied,
                   envsync_args, remote_file, profile_file, paste_vars>>

NextEnvsync == EnvsyncCopy \/ EnvsyncFindProfile \/ EnvsyncAddSource

\* the remote account as found, no run yet
InitEnvsync ==
    /\ data = [roots |-> <<>>]
    /\ InitRun
    /\ HostsIdle
    /\ remote_profiles \in RemoteAccounts
    /\ remote_echo_e \in BOOLEAN
    /\ remote_copied = None
    /\ envsync_pc = "idle"
    /\ envsync_args = None
    /\ remote_file = None
    /\ profile_file = None
    /\ envsync_exit = None
    /\ envsync_runs = 0
    /\ PasteIdle

SpecEnvsync == InitEnvsync /\ [][NextEnvsync]_vars

(* ------------------------------------------------------------------ *)
(* C21                                                                 *)
(* ------------------------------------------------------------------ *)
\* number of lines of a file that are exactly the given line
LineCount(line, file) ==
    IF file = None THEN 0
    ELSE Cardinality({i \in 1..Len(FileLines(file[1])) :
                          FileLines(file[1])[i] = line})

\* C21: a step of add_source_to_profile leaves every profile as it is when
\* the chosen profile has a line that is exactly 'source <remote_file>',
\* and otherwise changes the chosen profile only, which then has that line
\* exactly once.
C21_SourceLineOnce ==
    [][envsync_pc = "profiled" =>
          LET source_line == S_source \o remote_file[1]
              chosen == profile_file[1]
          IN  IF LineCount(source_line, remote_profiles[chosen]) > 0
              THEN remote_profiles' = remote_profiles
              ELSE /\ LineCount(source_line, remote_profiles'[chosen]) = 1
                   /\ \A p \in DOMAIN remote_profiles :
                          p # chosen => remote_profiles'[p] = remote_profiles[p]
      ]_vars

(* ------------------------------------------------------------------ *)
(* src/paste_lines_to_window.py                                        *)
(*                                                                     *)
(* xdotool and xprop are installed; the delays and the log lines of    *)
(* verbose mode, which hold wall-clock estimates, are left out.        *)
(* ------------------------------------------------------------------ *)
S_ID_open == <<"(", "I", "D", ":", " ">>
S_terminal_commands == <<"c", "t", "r", "l", "+", "s", "h", "i", "f", "t", "+", "v", ",", "R", "e", "t", "u", "r", "n">>
S_browser_commands == <<"c", "t", "r", "l", "+", "t", ",", "c", "t", "r", "l", "+", "v", ",", "R", "e", "t", "u", "r", "n">>
S_editor_commands == <<"c", "t", "r", "l", "+", "v", ",", "R", "e", "t", "u", "r", "n">>
S_stdin == <<"-">>
S_ReadingStdin == <<"I", "N", "F", "O", ":", " ", "R", "e", "a", "d", "i", "n", "g", " ", "f", "r", "o", "m", " ", "s", "t", "a", "n", "d", "a", "r", "d", " ", "i", "n", "p", "u", "t">>
S_FocusLost == <<"\n", "O", "p", "e", "r", "a", "t", "i", "o", "n", " ", "c", "a", "n", "c", "e", "l", "l", "e", "d", ":", " ", "T", "a", "r", "g", "e", "t", " ", "w", "i", "n", "d", "o", "w", " ", "f", "o", "c", "u", "s", " ", "w", "a", "s", " ", "l", "o", "s", "t">>
S_Cancelled == <<"\n", "O", "p", "e", "r", "a", "t", "i", "o", "n", " ", "c", "a", "n", "c", "e", "l", "l", "e", "d", " ", "b", "y", " ", "u", "s", "e", "r">>
S_AnError == <<"A", "n", " ", "e", "r", "r", "o", "r", " ", "o", "c", "c", "u", "r", "r", "e", "d", ":", " ">>
S_IndexError == <<"l", "i", "s", "t", " ", "i", "n", "d", "e", "x", " ", "o", "u", "t", " ", "o", "f", " ", "r", "a", "n", "g", "e">>
S_EmptySeparator == <<"e", "m", "p", "t", "y", " ", "s", "e", "p", "a", "r", "a", "t", "o", "r">>
S_XclipFailed == <<"E", "r", "r", "o", "r", ":", " ", "F", "a", "i", "l", "e", "d", " ", "t", "o", " ", "c", "o", "p", "y", " ", "t", "o", " ", "c", "l", "i", "p", "b", "o", "a", "r", "d", ".", " ", "E", "r", "r", "o", "r", " ", "c", "o", "d", "e", ":", " ", "1">>
S_XclipMissing1 == <<"E", "r", "r", "o", "r", ":", " ", "x", "c", "l", "i", "p", " ", "i", "s", " ", "n", "o", "t", " ", "i", "n", "s", "t", "a", "l", "l", "e", "d", ".", " ", "P", "l", "e", "a", "s", "e", " ", "i", "n", "s", "t", "a", "l", "l", " ", "i", "t", " ", "f", "i", "r", "s", "t", ".">>
S_XclipMissing2 == <<"Y", "o", "u", " ", "c", "a", "n", " ", "i", "n", "s", "t", "a", "l", "l", " ", "i", "t", " ", "u", "s", "i", "n", "g", ":", " ", "s", "u", "d", "o", " ", "p", "a", "c", "m", "a", "n", " ", "-", "S", " ", "x", "c", "l", "i", "p">>
S_XclipCalledProcessError == <<"C", "o", "m", "m", "a", "n", "d", " ", "'", "[", "'", "x", "c", "l", "i", "p", "'", ",", " ", "'", "-", "s", "e", "l", "e", "c", "t", "i", "o", "n", "'", ",", " ", "'", "c", "l", "i", "p", "b", "o", "a", "r", "d", "'", "]", "'", " ", "r", "e", "t", "u", "r", "n", "e", "d", " ", "n", "o", "n", "-", "z", "e", "r", "o", " ", "e", "x", "i", "t", " ", "s", "t", "a", "t", "u", "s", " ", "1", ".">>
S_NoSuchFile == <<"[", "E", "r", "r", "n", "o", " ", "2", "]", " ", "N", "o", " ", "s", "u", "c", "h", " ", "f", "i", "l", "e", " ", "o", "r", " ", "d", "i", "r", "e", "c", "t", "o", "r", "y", ":", " ">>
S_ErrorOpening == <<"E", "r", "r", "o", "r", " ", "o", "p", "e", "n", "i", "n", "g", " ", "f", "i", "l", "e", " ">>
S_KeyFailed == <<"E", "r", "r", "o", "r", " ", "s", "e", "n", "d", "i", "n", "g", " ", "k", "e", "y", "b", "o", "a", "r", "d", " ", "c", "o", "m", "m", "a", "n", "d", ":", " ", "C", "o", "m", "m", "a", "n", "d", " ", "'", "[", "'", "x", "d", "o", "t", "o", "o", "l", "'", ",", " ", "'", "k", "e", "y", "'", ",", " ", "'">>
S_KeyFailedEnd == <<"'", "]", "'", " ", "r", "e", "t", "u", "r", "n", "e", "d", " ", "n", "o", "n", "-", "z", "e", "r", "o", " ", "e", "x", "i", "t", " ", "s", "t", "a", "t", "u", "s", " ", "1", ".">>

\* str.split(sep) for a separator that is not empty
RECURSIVE split_sep(_, _)
split_sep(s, sep) ==
    LET At(i) == SubSeq(s, i, i + Len(sep) - 1) = sep
        RECURSIVE Find(_)
        Find(i) == IF i + Len(sep) - 1 > Len(s) THEN 0
                   ELSE IF At(i) THEN i ELSE Find(i + 1)
        k == Find(1)
    IN  IF k = 0 THEN <<s>>
        ELSE <<SubSeq(s, 1, k - 1)>>
             \o split_sep(SubSeq(s, k + Len(sep), Len(s)), sep)

\* str.rstrip('\n')
RECURSIVE rstrip_newline(_)
rstrip_newline(s) ==
    IF s # <<>> /\ s[Len(s)] = "\n"
    THEN rstrip_newline(SubSeq(s, 1, Len(s) - 1)) ELSE s

\* resolve_paste_commands
resolve_paste_commands(a) ==
    IF a.terminal_paste THEN S_terminal_commands
    ELSE IF a.browser_new_tabs THEN S_browser_commands
    ELSE IF a.editor_paste THEN S_editor_commands
    ELSE a.paste_commands

\* get_focused_window_class: f is None when xdotool getwindowfocus or
\* xprop fails, else the window that has the focus, with the output of the
\* two commands for it
get_focused_window_class(f) ==
    IF f = None THEN <<>>
    ELSE Lower(strip(f[1].wm_class)) \o <<" ">> \o S_ID_open
         \o strip(f[1].window_id) \o <<")">>

\* focus.split("(ID: ")[1].split(")")[0], None for the IndexError
FocusId(focus) ==
    LET parts == split_sep(focus, S_ID_open)
    IN  IF Len(parts) < 2 THEN None
        ELSE Some(split_sep(parts[2], <<")">>)[1])

\* assert_window_focused_byclass: compares what stands before the id
assert_window_focused_byclass(expected_focus, current) ==
    IF FocusId(expected_focus) = None \/ FocusId(current) = None
    THEN "IndexError"
    ELSE IF split_sep(expected_focus, S_ID_open)[1]
            # split_sep(current, S_ID_open)[1]
    THEN "WindowFocusLostError"
    ELSE "ok"

\* assert_window_focused: how the call ends, given what
\* get_focused_window_class returned in it
assert_window_focused(expected_focus, current) ==
    IF FocusId(expected_focus) = None \/ FocusId(current) = None
    THEN "IndexError"
    ELSE IF FocusId(expected_focus) # FocusId(current)
    THEN "WindowFocusLostError"
    ELSE "ok"

\* lines 224-228: the lines kept of the input, in order
RECURSIVE ReadLines(_)
ReadLines(file) ==
    IF file = <<>> THEN <<>>
    ELSE (IF rstrip_newline(Head(file)) # <<>>
          THEN <<rstrip_newline(Head(file))>> ELSE <<>>)
         \o ReadLines(Tail(file))

\* largest number of lines of the input
MaxLines == 2

Windows ==
    {[window_id |-> <<"1", "\n">>, wm_class |-> <<"T", "\n">>],
     [window_id |-> <<"2", "\n">>, wm_class |-> <<"B", "\n">>],
     [window_id |-> <<"3", "\n">>, wm_class |-> <<"b", "\n">>]}

FocusStates == {None} \cup {Some(w) : w \in Windows}

\* a text line, an empty line, and a last line without its newline
RawLines == {<<"x", "\n">>, <<"\n">>, <<"y">>}

InputFiles ==
    {file \in UNION {[1..n -> RawLines] : n \in 0..MaxLines} :
        \A i \in 1..(Len(file) - 1) : file[i][Len(file[i])] = "\n"}

\* the defaults of parse_arguments
DefaultPasteArgs ==
    [paste_commands |-> S_editor_commands, editor_paste |-> FALSE,
     terminal_paste |-> FALSE, browser_new_tabs |-> FALSE,
     delimiter |-> <<",">>, file |-> S_stdin]

\* at most one option of the paste mode group is given
PasteModes ==
    {DefaultPasteArgs,
     [DefaultPasteArgs EXCEPT !.paste_commands = <<"a", ",", "b">>],
     [DefaultPasteArgs EXCEPT !.editor_paste = TRUE],
     [DefaultPasteArgs EXCEPT !.terminal_paste = TRUE],
     [DefaultPasteArgs EXCEPT !.browser_new_tabs = TRUE]}

\* the option -d with another delimiter or an empty one, the option -f
PasteArgs ==
    PasteModes
    \cup {[DefaultPasteArgs EXCEPT !.paste_commands = <<"a", "+", "b">>,
                                   !.delimiter = <<"+">>],
          [DefaultPasteArgs EXCEPT !.delimiter = <<>>],
          [DefaultPasteArgs EXCEPT !.file = <<"f">>]}

\* main: sys.exit(status) after the messages
PasteExit(status, messages) ==
    /\ stderr' = stderr \o messages
    /\ exit_code' = Some(status)
    /\ paste_pc' = "exited"

\* main up to the call of paste_lines: the arguments, the paste commands
\* and open_input_file
PasteMain ==
    /\ paste_pc = "start"
    /\ \E a \in PasteArgs, file \in InputFiles, opens \in BOOLEAN :
        /\ paste_args' = Some(a)
        /\ IF a.file = S_stdin
           THEN /\ stderr' = Append(stderr, S_ReadingStdin)
                /\ input_file' = file
                /\ paste_pc' = "opened"
                /\ UNCHANGED exit_code
           ELSE IF opens
           THEN /\ input_file' = file
                /\ paste_pc' = "opened"
                /\ UNCHANGED <<stderr, exit_code>>
           ELSE /\ PasteExit(1, <<S_ErrorOpening \o a.file \o <<":", " ">>
                                   \o S_NoSuchFile \o <<"'">> \o a.file
                                   \o <<"'">> >>)
                /\ UNCHANGED input_file
    /\ UNCHANGED <<data, args, pc, folders_iter, stdout, ls_vars, hosts_vars,
                   envsync_vars, focused, initial_focus, target_focus,
                   commands, lines_to_process, line_count, command_i,
                   current_focus, clipboard_log, keys_sent>>

\* paste_lines: initial_focus = get_focused_window_class()
PasteInitialFocus ==
    /\ paste_pc = "opened"
    /\ initial_focus' = Some(get_focused_window_class(focused))
    /\ paste_pc' = "waiting"
    /\ UNCHANGED <<data, args, pc, folders_iter, stdout, stderr, exit_code,
                   ls_vars, hosts_vars, envsync_vars, focused, paste_args,
                   input_file, target_focus, commands, lines_to_process,
                   line_count, command_i, current_focus, clipboard_log,
                   keys_sent>>

\* wait_for_focus_change: one turn of its loop
PasteWaitForFocus ==
    /\ paste_pc = "waiting"
    /\ IF get_focused_window_class(focused) # initial_focus[1]
       THEN /\ target_focus' = Some(get_focused_window_class(focused))
            /\ paste_pc' = "focused"
       ELSE UNCHANGED <<target_focus, paste_pc>>
    /\ UNCHANGED <<data, args, pc, folders_iter, stdout, stderr, exit_code,
                   ls_vars, hosts_vars, envsync_vars, focused, paste_args,
                   input_file, initial_focus, commands, lines_to_process,
                   line_count, command_i, current_focus, clipboard_log,
                   keys_sent>>

\* paste_lines, lines 213-233: the commands are split and the input is read
PasteRead ==
    /\ paste_pc = "focused"
    /\ IF paste_args[1].delimiter = <<>>
       THEN /\ PasteExit(1, <<S_AnError \o S_EmptySeparator>>)
            /\ UNCHANGED <<commands, lines_to_process, input_file>>
       ELSE /\ commands' = split_sep(resolve_paste_commands(paste_args[1]),
                                     paste_args[1].delimiter)
            /\ lines_to_process' = ReadLines(input_file)
            /\ input_file' = <<>>
            /\ paste_pc' = "line"
            /\ UNCHANGED <<stderr, exit_code>>
    /\ line_count' = 0
    /\ UNCHANGED <<data, args, pc, folders_iter, stdout, ls_vars, hosts_vars,
                   envsync_vars, focused, paste_args, initial_focus,
                   target_focus, command_i, current_focus, clipboard_log,
                   keys_sent>>

\* paste_lines, lines 236-266: the next line is printed and copied to the
\* clipboard; after the last line main returns
PasteLine ==
    /\ paste_pc = "line"
    /\ IF line_count = Len(lines_to_process)
       THEN /\ PasteExit(0, <<>>)
            /\ UNCHANGED <<stdout, line_count, command_i, clipboard_log>>
       ELSE /\ line_count' = line_count + 1
            /\ stdout' = Append(stdout, lines_to_process[line_count + 1])
            /\ \E xclip \in {"ok", "CalledProcessError", "FileNotFoundError"} :
                IF xclip = "ok"
                THEN /\ clipboard_log' =
                            Append(clipboard_log,
                                   lines_to_process[line_count + 1])
                     /\ command_i' = 1
                     /\ paste_pc' = "check"
                     /\ UNCHANGED <<stderr, exit_code>>
                ELSE IF xclip = "CalledProcessError"
                THEN /\ PasteExit(1, <<S_XclipFailed,
                                       S_AnError \o S_XclipCalledProcessError>>)
                     /\ UNCHANGED <<command_i, clipboard_log>>
                ELSE /\ PasteExit(1, <<S_XclipMissing1, S_XclipMissing2,
                                       S_AnError \o S_NoSuchFile
                                       \o <<"'", "x", "c", "l", "i", "p", "'">> >>)
                     /\ UNCHANGED <<command_i, clipboard_log>>
    /\ UNCHANGED <<data, args, pc, folders_iter, ls_vars, hosts_vars,
                   envsync_vars, focused, paste_args, input_file,
                   initial_focus, target_focus, commands, lines_to_process,
                   current_focus, keys_sent>>

\* send_key, line 143: assert_window_focused
PasteAssertFocus ==
    /\ paste_pc = "check"
    /\ current_focus' = Some(get_focused_window_class(focused))
    /\ LET end == assert_window_focused(target_focus[1],
                                        get_focused_window_class(focused))
       IN  IF end = "ok"
           THEN /\ paste_pc' = "key"
                /\ UNCHANGED <<stderr, exit_code>>
           ELSE IF end = "WindowFocusLostError"
           THEN PasteExit(1, <<S_FocusLost>>)
           ELSE PasteExit(1, <<S_AnError \o S_IndexError>>)
    /\ UNCHANGED <<data, args, pc, folders_iter, stdout, ls_vars, hosts_vars,
                   envsync_vars, focused, paste_args, input_file,
                   initial_focus, target_focus, commands, lines_to_process,
                   line_count, command_i, clipboard_log, keys_sent>>

\* send_key, lines 145-148, and the step of the loop over the commands
PasteKey ==
    /\ paste_pc = "key"
    /\ keys_sent' = Append(keys_sent, commands[command_i])
    /\ \E xdotool_ok \in BOOLEAN :
          stderr' = IF xdotool_ok THEN stderr
                    ELSE Append(stderr, S_KeyFailed \o commands[command_i]
                                        \o S_KeyFailedEnd)
    /\ current_focus' = None
    /\ IF command_i = Len(commands)
       THEN paste_pc' = "line" /\ command_i' = 0
       ELSE paste_pc' = "check" /\ command_i' = command_i + 1
    /\ UNCHANGED <<data, args, pc, folders_iter, stdout, exit_code, ls_vars,
                   hosts_vars, envsync_vars, focused, paste_args, input_file,
                   initial_focus, target_focus, commands, lines_to_process,
                   line_count, clipboard_log>>

\* main, lines 292-294: the user interrupts the run
PasteInterrupt ==
    /\ paste_pc \notin {"start", "exited"}
    /\ PasteExit(1, <<S_Cancelled>>)
    /\ UNCHANGED <<data, args, pc, folders_iter, stdout, ls_vars, hosts_vars,
                   envsync_vars, focused, paste_args, input_file,
                   initial_focus, target_focus, commands, lines_to_process,
                   line_count, command_i, current_focus, clipboard_log,
                   keys_sent>>

\* the display: the focus moves to another window, or the X commands
\* start or stop failing, at any moment of a run
FocusChange ==
    /\ paste_pc \notin {"start", "exited"}
    /\ focused' \in FocusStates \ {focused}
    /\ UNCHANGED <<data, args, pc, folders_iter, stdout, stderr, exit_code,
                   ls_vars, hosts_vars, envsync_vars, paste_pc, paste_args,
                   input_file, initial_focus, target_focus, commands,
                   lines_to_process, line_count, command_i, current_focus,
                   clipboard_log, keys_sent>>

NextPaste ==
    \/ PasteMain \/ PasteInitialFocus \/ PasteWaitForFocus \/ PasteRead
    \/ PasteLine \/ PasteAssertFocus \/ PasteKey \/ PasteInterrupt
    \/ FocusChange

InitPaste ==
    /\ data = [roots |-> <<>>]
    /\ InitRun
    /\ HostsIdle
    /\ EnvsyncIdle
    /\ focused \in FocusStates
    /\ paste_pc = "start"
    /\ paste_args = None
    /\ input_file = <<>>
    /\ initial_focus = None
    /\ target_focus = None
    /\ commands = <<>>
    /\ lines_to_process = <<>>
    /\ line_count = 0
    /\ command_i = 0
    /\ current_focus = None
    /\ clipboard_log = <<>>
    /\ keys_sent = <<>>

SpecPaste == InitPaste /\ [][NextPaste]_vars

(* ------------------------------------------------------------------ *)
(* C22                                                                 *)
(* ------------------------------------------------------------------ *)
\* the two focus descriptions were made for windows with the same id
SameWindowId(a, b) ==
    \E w \in Windows, v \in Windows :
        /\ a = get_focused_window_class(Some(w))
        /\ b = get_focused_window_class(Some(v))
        /\ w.window_id = v.window_id

\* C22: a step that runs xdotool key is taken inside a send_key call whose
\* focus check saw the window with the id of the target window; a focus
\* check that saw anything else ends the run with status 1; and after the
\* end of the run no key command is sent and no line is copied to the
\* clipboard.
C22_KeysBehindFocusCheck ==
    [][/\ keys_sent' # keys_sent =>
              /\ current_focus # None
              /\ SameWindowId(current_focus[1], target_focus[1])
       /\ (/\ paste_pc = "check"
           /\ current_focus' # None
           /\ ~SameWindowId(current_focus'[1], target_focus[1]))
              => exit_code' = Some(1) /\ paste_pc' = "exited"
       /\ exit_code # None =>
              keys_sent' = keys_sent /\ clipboard_log' = clipboard_log
      ]_vars

\* the focus was lost after a key command had been sent
C22_Witness ==
    /\ paste_pc = "exited"
    /\ exit_code = Some(1)
    /\ keys_sent # <<>>
    /\ current_focus # None
    /\ ~SameWindowId(current_focus[1], target_focus[1])
    /\ stderr[Len(stderr)] = S_FocusLost

(* ------------------------------------------------------------------ *)
(* C23                                                                 *)
(* ------------------------------------------------------------------ *)
\* re is the walk restarted at the folder of record p of the full walk:
\* the folders of records p, p+1, ... of full, as many as the folder and
\* its descendant folders, each path without the segments above the folder,
\* each parent_id as in full but for the first, which is none
RestartOf(full, p, re) ==
    LET above == Len(full[p].path_parts) - 1
    IN  /\ Len(re) = Cardinality(SubFolders(full[p].folder))
        /\ {re[k].folder : k \in 1..Len(re)} = SubFolders(full[p].folder)
        /\ p + Len(re) - 1 <= Len(full)
        /\ \A k \in 1..Len(re) :
              LET rec == full[p + k - 1]
              IN  /\ re[k].folder = rec.folder
                  /\ re[k].path_parts =
                        SubSeq(rec.path_parts, above + 1, Len(rec.path_parts))
                  /\ re[k].parent_id =
                        IF k = 1 THEN None ELSE rec.parent_id

\* C23: for every folder F of the document the walk restarted at F is the
\* segment of the full walk that begins at F's record, with the path
\* segments above F removed and F's parent_id none; and the records a
\* resolved selector leaves are that walk for the resolved folder.
C23_RestartIsSegment ==
    [][pc = "enumerated" =>
          /\ \A p \in 1..Len(folders_iter) :
                RestartOf(folders_iter, p,
                          _iter_folders(folders_iter[p].folder, None, <<>>))
          /\ (pc' = "selected" /\ args'.selector # <<>>) =>
                \E p \in 1..Len(folders_iter) :
                    /\ folders_iter[p].folder =
                          ResolvedFolder(data, args'.selector)
                    /\ RestartOf(folders_iter, p, folders_iter')
      ]_vars

\* the walk was restarted at a folder that is not a root, has a folder
\* below it, and whose segment is not the end of the full walk
C23_Witness ==
    /\ pc = "selected"
    /\ args.selector # <<>>
    /\ Len(folders_iter) >= 2
    /\ \E p \in 2..Len(AllFolders(data)) :
          /\ AllFolders(data)[p].folder = folders_iter[1].folder
          /\ Len(AllFolders(data)[p].path_parts) >= 3
          /\ p + Len(folders_iter) - 1 < Len(AllFolders(data))

(* ------------------------------------------------------------------ *)
(* Documents with a name that is a fragment of another and with twins  *)
(* ------------------------------------------------------------------ *)
\* the node with the name b1 replaced by B, which is a part of aB
RECURSIVE Renamed(_)
Renamed(node) ==
    LET named == [node EXCEPT !.name = IF node.name = <<"b", "1">>
                                       THEN <<"B">> ELSE node.name]
    IN  IF "children" \in DOMAIN node
        THEN [named EXCEPT !.children =
                  [k \in 1..Len(node.children) |-> Renamed(node.children[k])]]
        ELSE named

RenamedDocuments ==
    {[roots |-> [k \in 1..Len(d.roots) |->
                    IF d.roots[k].isdict
                    THEN [d.roots[k] EXCEPT !.value = Renamed(d.roots[k].value)]
                    ELSE d.roots[k]]]
        : d \in {v \in ValidDocuments : DocumentNodes(v) <= MaxSmallNodes}}

\* the document with the first child of its first root folder there twice:
\* two nodes equal in every field, at the same path
Twinned(d) ==
    LET root == d.roots[1].value
    IN  [roots |-> [d.roots EXCEPT ![1].value.children =
                        <<root.children[1]>> \o root.children]]

TwinDocuments ==
    {Twinned(d) : d \in {v \in RenamedDocuments :
                            /\ v.roots[1].value.children # <<>>
                            /\ IsFolder(v.roots[1].value.children[1])}}

InitFullNames ==
    /\ data \in RenamedDocuments \cup TwinDocuments
    /\ InitRun
    /\ HostsIdle
    /\ ToolsIdle

SpecFullNames == InitFullNames /\ [][NextCli]_vars

(* ------------------------------------------------------------------ *)
(* C24                                                                 *)
(* ------------------------------------------------------------------ *)
\* the records of the document's walk whose folder has the token in its name
NameRecords(d, tok) ==
    SelectSeq(AllFolders(d),
              LAMBDA r : Contains(Lower(r.folder.name), Lower(tok)))

\* the records of the document's walk whose folder has the token as its id
IdRecords(d, tok) == SelectSeq(AllFolders(d), LAMBDA r : r.folder.id = tok)

\* number of places of s where sub begins
Occurrences(s, sub) ==
    Cardinality({i \in 1..(Len(s) - Len(sub) + 1) :
                    SubSeq(s, i, i + Len(sub) - 1) = sub})

\* the token is the id of no folder and in the name of several
SeveralNameMatches ==
    /\ SelectorRead
    /\ args.selector # <<>>
    /\ IdRecords(data, args.selector) = <<>>
    /\ Len(NameRecords(data, args.selector)) >= 2

\* C24: when the token is the id of no folder and in the name of two or
\* more, the run returns no folder (status 1, nothing printed, nothing
\* resolved), whether or not a name is the token itself, and the diagnostic
\* has one entry "path (id:x)" for every matching record, twins included.
C24_NeverPicksAmongMatches ==
    SeveralNameMatches =>
        /\ pc = "exited"
        /\ exit_code = Some(1)
        /\ stdout = <<>>
        /\ folder_node = None
        /\ Len(stderr) = 1
        /\ Occurrences(stderr[1], <<" ", "(", "i", "d", ":">>)
              = Len(NameRecords(data, args.selector))
        /\ \A k \in 1..Len(NameRecords(data, args.selector)) :
              Contains(stderr[1],
                       Join(<<"/">>, NameRecords(data, args.selector)[k].path_parts)
                       \o <<" ", "(", "i", "d", ":">>
                       \o NameRecords(data, args.selector)[k].folder.id
                       \o <<")">>)

\* a refused token that is the whole name of twins and a part of the name
\* of another folder
C24_Witness ==
    /\ SeveralNameMatches
    /\ pc = "exited"
    /\ LET recs == NameRecords(data, args.selector)
       IN  /\ \E i \in 1..Len(recs), j \in 1..Len(recs) :
                 /\ i < j
                 /\ recs[i].folder = recs[j].folder
                 /\ recs[i].path_parts = recs[j].path_parts
                 /\ recs[i].folder.name = args.selector
           /\ \E k \in 1..Len(recs) : recs[k].folder.name # args.selector

(* ------------------------------------------------------------------ *)
(* C25                                                                 *)
(* ------------------------------------------------------------------ *)
\* the token is the id of two or more folders of the document
SeveralIdMatches ==
    /\ SelectorRead
    /\ args.selector # <<>>
    /\ Len(IdRecords(data, args.selector)) >= 2

\* C25: when two or more folders have the token as their id, the run ends
\* with status 1 and the one line "ERROR: Internal error: multiple folders
\* with id <token>" on stderr, which is neither the ambiguity diagnostic nor
\* the no-match one; no folder is resolved and nothing is printed.
C25_DuplicateIdIsInternalError ==
    SeveralIdMatches =>
        /\ pc = "exited"
        /\ exit_code = Some(1)
        /\ stdout = <<>>
        /\ folder_node = None
        /\ stderr = <<<<"E", "R", "R", "O", "R", ":", " ", "I", "n", "t", "e", "r", "n", "a", "l", " ", "e", "r", "r", "o", "r", ":", " ", "m", "u", "l", "t", "i", "p", "l", "e", " ", "f", "o", "l", "d", "e", "r", "s", " ", "w", "i", "t", "h", " ", "i", "d", " ">>
                      \o args.selector>>
        /\ ~Contains(stderr[1], <<"a", "m", "b", "i", "g", "u", "o", "u", "s">>)
        /\ ~Contains(stderr[1], <<"N", "o", " ", "b", "o", "o", "k", "m", "a", "r", "k", " ", "f", "o", "l", "d", "e", "r">>)

\* the token is the id of two folders and also a part of the name of one
C25_Witness ==
    /\ SeveralIdMatches
    /\ pc = "exited"
    /\ NameRecords(data, args.selector) # <<>>

(* ------------------------------------------------------------------ *)
(* C26                                                                 *)
(* ------------------------------------------------------------------ *)
\* C26: no step of a list-dirs or ls run changes the loaded document; the
\* folders the run holds in its lists and as the resolved folder are folders
\* of the document as loaded; and the direct-children listing of every
\* folder is the folder's children list, same elements in the same order.
C26_ReadOnly ==
    [][LET loaded == DocFolders(data)
       IN  /\ data' = data
           /\ \A f \in loaded :
                 _iter_children(f) =
                     IF "children" \in DOMAIN f THEN f.children ELSE <<>>
           /\ \A k \in 1..Len(folders_iter') :
                 folders_iter'[k].folder \in loaded
           /\ \A k \in 1..Len(all_folders') :
                 all_folders'[k].folder \in loaded
           /\ folder_node' # None => folder_node'[1] \in loaded
      ]_vars

\* an ls run that listed a folder with two children or more and ended
C26_Witness ==
    /\ pc = "ls_done"
    /\ folder_node # None
    /\ Len(_iter_children(folder_node[1])) >= 2
    /\ Len(stdout) >= 2

(* ------------------------------------------------------------------ *)
(* C27                                                                 *)
(* ------------------------------------------------------------------ *)
\* the first non-blank character of the line is #
CommentedOut(line) == strip(line) # <<>> /\ strip(line)[1] = "#"

\* ip, hostname, the comment when there is one, and the marker, separated
\* by single spaces, behind "# " when commented out
EntryLine(ip, hostname, comment, marker, off) ==
    (IF off THEN <<"#", " ">> ELSE <<>>)
    \o ip \o <<" ">> \o hostname
    \o (IF comment = <<>> THEN <<>> ELSE <<" ">> \o comment)
    \o <<" ">> \o marker

\* the position of the first line of h ending with m, 0 if there is none
FirstManaged(lines, h, m) ==
    LET RECURSIVE From(_)
        From(i) == IF i > Len(lines) THEN 0
                   ELSE IF Managed(lines[i], h, m) THEN i ELSE From(i + 1)
    IN  From(1)

\* C27: an update for a hostname that has a line ending with the marker
\* rewrites that line in place, the list as long as before, with the new
\* ip, the new comment and the marker, commented out if and only if the line
\* was; an update for a hostname with no such line adds one enabled line at
\* the end, the list add gives; either way the list is written, status 0.
C27_UpdateInPlace ==
    [][(hosts_runs' # hosts_runs /\ hosts_args'.command = "update") =>
          \E a \in {hosts_args'} :
          \E i \in {FirstManaged(hosts_file, a.hostname, a.marker)} :
              /\ hosts_exit' = Some(0)
              /\ hosts_file' = lines_data'
              /\ IF i # 0
                 THEN /\ Len(lines_data') = Len(hosts_file)
                      /\ \A j \in 1..Len(hosts_file) :
                            j # i => lines_data'[j] = hosts_file[j]
                      /\ lines_data'[i] =
                            EntryLine(a.ip, a.hostname, a.comment, a.marker,
                                      CommentedOut(hosts_file[i]))
                 ELSE /\ lines_data' =
                            Append(hosts_file,
                                   EntryLine(a.ip, a.hostname, a.comment,
                                             a.marker, FALSE))
                      /\ lines_data' =
                            add_entry(hosts_file, a.ip, a.hostname, a.comment,
                                      a.marker).lines_data
      ]_vars

\* an update that rewrote a commented-out line, which is not the first line
\* of the file, with another ip
C27_Witness ==
    /\ hosts_args.command = "update"
    /\ hosts_exit = Some(0)
    /\ LET i == FirstManaged(hosts_bak[1], hosts_args.hostname,
                             hosts_args.marker)
       IN  /\ i > 1
           /\ CommentedOut(hosts_bak[1][i])
           /\ CommentedOut(hosts_file[i])
           /\ hosts_file[i] # hosts_bak[1][i]
           /\ parse_line_components(hosts_bak[1][i]).ip # hosts_args.ip

(* ------------------------------------------------------------------ *)
(* C28                                                                 *)
(* ------------------------------------------------------------------ *)
\* an enabled line that is build_line(ip, hostname, comment, m, False) for
\* its own ip and hostname and some comment taken from the line
BuiltForm(line, m) ==
    \E c \in {parse_line_components(line)} :
        /\ c.ip # <<>>
        /\ \E i \in 1..(Len(line) + 1), j \in 0..Len(line) :
              line = c.ip \o <<" ">> \o c.hostname
                     \o (IF i <= j THEN <<" ">> \o SubSeq(line, i, j) ELSE <<>>)
                     \o <<" ">> \o m
        /\ line = strip(line)
        /\ Head(line) # "#"

\* no white space in the line but single blanks between its words
SingleSpaced(line) == line = Join(<<" ">>, split(line))

\* an enable that follows a disable of the same hostname that was written
EnableAfterDisable ==
    /\ hosts_runs' # hosts_runs
    /\ hosts_args'.command = "enable"
    /\ hosts_args.command = "disable"
    /\ hosts_exit = Some(0)
    /\ hosts_args'.hostname = hosts_args.hostname

\* the line list the enable leaves is the one the disable read
Restored == lines_data' = hosts_bak[1] /\ hosts_exit' = Some(0)

\* The statement of C28 as the specification has it: every line in the form
\* build_line produces comes back exactly from disable followed by enable.
C28_RoundTripAnyBuiltLine ==
    [][EnableAfterDisable =>
          \E i \in {FirstManaged(hosts_bak[1], hosts_args.hostname,
                                 hosts_args.marker)} :
              (i # 0 /\ BuiltForm(hosts_bak[1][i], hosts_args.marker))
                  => Restored]_vars

\* C28: for a managed line in the form build_line produces whose words are
\* separated by single blanks, disable followed by enable of the same
\* hostname restores the line list exactly (ip, hostname, comment and marker
\* kept); disabling an entry that is disabled and enabling one that is
\* enabled leave the line list as read; a disabled entry is found by a later
\* enable, update or delete, which ends with status 0 having uncommented,
\* rewritten in place or removed that line.
C28_DisableEnable ==
    [][hosts_runs' # hosts_runs =>
          \E a \in {hosts_args'} :
          \E i \in {FirstManaged(hosts_file, a.hostname, a.marker)} :
              /\ EnableAfterDisable =>
                    \E k \in {FirstManaged(hosts_bak[1], a.hostname, a.marker)} :
                        (/\ k # 0
                         /\ BuiltForm(hosts_bak[1][k], a.marker)
                         /\ SingleSpaced(hosts_bak[1][k])) => Restored
              /\ (/\ i # 0
                  /\ \/ a.command = "disable" /\ CommentedOut(hosts_file[i])
                     \/ a.command = "enable" /\ ~CommentedOut(hosts_file[i]))
                    => lines_data' = hosts_file /\ hosts_exit' = Some(0)
              /\ (i # 0 /\ CommentedOut(hosts_file[i])) =>
                    /\ a.command = "enable" =>
                          /\ hosts_exit' = Some(0)
                          /\ Len(lines_data') = Len(hosts_file)
                          /\ lines_data'[i]
                                = Join(<<" ">>, split(Tail(lstrip(hosts_file[i]))))
                    /\ a.command = "update" =>
                          /\ hosts_exit' = Some(0)
                          /\ Len(lines_data') = Len(hosts_file)
                          /\ CommentedOut(lines_data'[i])
                    /\ a.command = "delete" =>
                          /\ hosts_exit' = Some(0)
                          /\ lines_data' = SubSeq(hosts_file, 1, i - 1)
                                \o SubSeq(hosts_file, i + 1, Len(hosts_file))
      ]_vars

\* an enable that gave back the line with its comment, two runs after the
\* file held it enabled
C28_Witness ==
    /\ hosts_args.command = "enable"
    /\ hosts_exit = Some(0)
    /\ hosts_runs = 2
    /\ \E i \in 1..Len(hosts_file) :
          /\ hosts_file[i] = Line_built
          /\ hosts_bak[1][i] = <<"#", " ">> \o Line_built

(* ------------------------------------------------------------------ *)
(* C29                                                                 *)
(* ------------------------------------------------------------------ *)
\* a value of --hostname that holds a blank: argparse takes any string
SpacedHostnames == {<<"h", " ", "g">>}

\* main: add, the hostname given with a blank in it
HostsAddSpaced ==
    /\ hosts_runs < MaxRuns
    /\ \E ip \in Ips, hostname \in SpacedHostnames, comment \in Comments :
        /\ hosts_args' = HostsArgs("add", ip, hostname, comment)
        /\ Finish(add_entry(parse_hosts(hosts_file), ip, hostname, comment,
                            hosts_args.marker))

NextHostsSpaced == HostsAddSpaced \/ NextHosts

SpecHostsSpaced == InitHosts /\ [][NextHostsSpaced]_vars

\* the lines of hostname h that end with the marker m, commented out or not
ManagedLines(lines, h, m) == {i \in 1..Len(lines) : Managed(lines[i], h, m)}

\* C29: the file found has at most one line ending with the marker for every
\* hostname, and so has the file after every sequence of add, update,
\* disable, enable and delete runs with that marker.
C29_AtMostOneLinePerHostname ==
    \A h \in Hostnames :
        Cardinality(ManagedLines(hosts_file, h, hosts_args.marker)) <= 1

(* ------------------------------------------------------------------ *)
(* C30                                                                 *)
(* ------------------------------------------------------------------ *)
\* the bookmarks (url nodes) directly below a folder
BookmarksOf(f) ==
    {GetChildren(f)[k] : k \in {j \in 1..Len(GetChildren(f)) :
                                   GetType(GetChildren(f)[j]) = Some(S_url)}}

\* the ids of the bookmarks of the document
UrlIds(d) == {u.id : u \in UNION {BookmarksOf(f) : f \in DocFolders(d)}}

\* the token given is the id of a bookmark and of no folder
TokenIsBookmarkId ==
    /\ SelectorRead
    /\ args.selector # <<>>
    /\ args.selector \in UrlIds(data)
    /\ IdRecords(data, args.selector) = <<>>

\* the folder the run went on with: the one ls resolved, or the one the
\* restarted walk of list-dirs begins with
FolderGoneOnWith ==
    IF folder_node # None THEN folder_node[1] ELSE folders_iter[1].folder

\* C30: a token that is the id of a bookmark and of no folder is matched
\* against the folder names only: with no folder name containing it the run
\* fails with the no-match line, with several it fails with the ambiguity
\* line, in both cases status 1 and nothing printed or resolved; with one it
\* goes on with that folder, whether or not it holds the bookmark.
C30_BookmarkIdIsNameFragment ==
    TokenIsBookmarkId =>
        \E recs \in {NameRecords(data, args.selector)} :
            IF Len(recs) = 1
            THEN /\ pc \notin {"exited", "raised"}
                 /\ FolderGoneOnWith = recs[1].folder
                 /\ Contains(Lower(FolderGoneOnWith.name), Lower(args.selector))
            ELSE /\ pc = "exited"
                 /\ exit_code = Some(1)
                 /\ stdout = <<>>
                 /\ folder_node = None
                 /\ Len(stderr) = 1
                 /\ IF Len(recs) = 0
                    THEN stderr[1] = <<"E", "R", "R", "O", "R", ":", " ">>
                                     \o S_NoMatch \o args.selector \o <<"'">>
                    ELSE Contains(stderr[1], <<"a", "m", "b", "i", "g", "u", "o", "u", "s">>)

\* a run that went on with the one folder named after the token, while the
\* bookmark with that id lies in another folder
C30_Witness ==
    /\ TokenIsBookmarkId
    /\ pc \notin {"exited", "raised"}
    /\ \A u \in BookmarksOf(FolderGoneOnWith) : u.id # args.selector
    /\ FolderGoneOnWith.id # args.selector

====
